---- MODULE Spec2Model ----
(***************************************************************************)
(* A model of PingFL's core: the round-based debugging orchestrator        *)
(* (src/src/core/debug_agent.py), the search fan-out of PingflAgent        *)
(* (src/src/core/pingfl_agent.py), the verification engine                 *)
(* (src/src/core/verify_agent.py), the code graph builder                  *)
(* (src/src/repograph/construct_graph.py) and the Tag data model           *)
(* (src/src/schema.py).                                                    *)
(*                                                                         *)
(* Each subsystem has its own variables, initial condition, next-state     *)
(* relation and specification; a specification leaves the variables of the *)
(* other subsystems at their idle values.                                  *)
(***************************************************************************)
EXTENDS Integers, Sequences, FiniteSets, TLC

VARIABLES
    \* ---- DebugState / debug_process (debug_agent.py) ----
    parallel_search,   \* DebugState.parallel_search (config.hyper.parallel_search)
    max_rounds,        \* DebugState.max_rounds
    current_round,     \* DebugState.current_round
    completed,         \* DebugState.completed
    found_bug,         \* DebugState.found_bug
    round_results,     \* DebugState.round_results: Seq of RoundResult
    dpc,               \* position of debug_process
    derr,              \* the exception that ended debug_process ("none" while it runs)
    pending,           \* what the agent just returned (memories), before it is persisted
    files,             \* round-n/search_results.json and verify_results.json
    first_ret,         \* history: per round, the list returned by the run that wrote the file
    last_ret,          \* history: the list the latest run_search / run_verify returned
    agent_runs,        \* history: per round, how often each agent was invoked
    crashes,           \* number of crash/restarts so far
    \* ---- PingflAgent (pingfl_agent.py) ----
    hyper,             \* config.hyper: the budgets of one search run
    cur_paths,         \* PingflAgent.cur_paths
    process_counter,   \* PingflAgent.process_counter
    processes,         \* PingflAgent.processes: process id -> ProcessState
    futures,           \* PingflAgent.futures: the process ids of the tracked futures
    threads,           \* per submitted run_process call: its position and locals
    run_state,         \* position of PingflAgent.run
    \* ---- apply_edit_commands_search_replace (verify_agent.py) ----
    e_lines,           \* the lines of the file the edit is applied to
    e_interval,        \* method_loc_interval
    e_command,         \* the edit command of the oracle: its shape, search and replace text
    e_result,          \* what the call came to
    e_file,            \* the java file of the playground as edit_and_run writes it
    epc,               \* "ready" before the call, "applied" after it, then "written"
                       \* or "raised"
    \* ---- VerifyAgent.run_process (verify_agent.py) ----
    vpc,               \* position of run_process
    ws,                \* the playground directory: the checkout, the Java file, its .bak
    v_transcript,      \* process.memory.messages
    retry_msg_idx,     \* process.memory.retry_msg_idx
    retry_round,       \* the local retry_round
    edit_count,        \* process.edit_count
    retry_count,       \* process.retry_count
    tests_run,         \* history: how often the test was run in the playground
    v_cmd,             \* the edit command of the latest oracle message
    verr,              \* the exception that ended run_process ("none" otherwise)
    v_turns,           \* oracle calls of this run_process call
    v_runs,            \* run_process calls for this method so far
    \* ---- CodeGraph / create_repo_graph (construct_graph.py) ----
    src_tags,          \* the tags parsed from the source and test files
    tag_objs,          \* the Tag objects created so far: object -> its fields now
    all_graphs,        \* all_graphs: the graph of each test case built so far
    combined_graph,    \* the compose_all of all_graphs
    gpc,               \* position of create_repo_graph
    \* ---- RepoSearcher (graph_searcher.py) ----
    s_nodes,           \* the function nodes of the graph the searcher is built from
    repo_searcher,     \* the searcher: method_dict, covered_method_dict, method_id_map
    hash_seed,         \* the hash seed of the interpreter the searcher lives in
    s_call,            \* the latest call of the searcher and its argument
    s_answer,          \* what that call came to
    s_prev,            \* history: the get_method_code_for_id call before the latest
    \* ---- DebugAgent.run (debug_agent.py) ----
    num_process,       \* DebugAgent.num_process
    case_status,       \* per test case: where its debug_process call stands
    da_results,        \* the list results of run_multiprocess / run_singleprocess
    da_pc,             \* position of DebugAgent.run
    \* ---- VerifyAgent.run (verify_agent.py) ----
    play_nodes,        \* the function nodes of the graph of the test case
    nominated,         \* the method IDs of the "results" of the search branches
    verify_inputs,     \* the VerifyInput list of the round
    play_status,       \* per VerifyInput: where its run_process call stands
    play_dirs,         \* the playground directories that exist
    play_pc,           \* position of the round: prepare, run, wait, returned
    \* ---- tool execution in the branches of a search run ----
    tool_agent,        \* the class of the agent: "PingflAgent" or "SearchAgent"
    branches,          \* per sibling branch: its future, memory and function_calls
    search_run,        \* position of the agent's run
    \* ---- the loops that ask the oracle again ----
    rp_loop,           \* which loop runs: "search_turn", "verdict" or "summary"
    rp_messages,       \* the messages the next oracle call is made with
    rp_malformed,      \* malformed responses in a row since the loop was entered
    rp_pc,             \* "calling" at the head of the loop, else how it was left
    \* ---- the objects of the process map (create_process) ----
    cp_heap,           \* the list objects: address -> content
    cp_processes,      \* process id -> the addresses of its memory and function_calls
    cp_counter,        \* process_counter
    \* ---- the polling loop of run and the futures list ----
    pl_futures,        \* self.futures: the list of the process ids of the futures
    pl_branches,       \* per process id: where its run_process call stands
    pl_counter,        \* process_counter
    pl_poll,           \* the polling loop: asleep (0) or the index all(...) is at
    pl_run,            \* position of run
    \* ---- process_lock and the bookkeeping it guards ----
    lk_holder,         \* the thread holding self.process_lock (-1: free)
    lk_pc,             \* per parent thread: its position in process_function_calls
    lk_book,           \* processes, process_counter, cur_paths and futures
    lk_log,            \* history: the mutations made, with the lock holder at the time
    \* ---- NewRepoSearcher.get_method_ids_contain_string (graph_searcher.py) ----
    cs_methods,        \* method_id_map.values(): the methods of the searcher
    cs_seed,           \* the hash seed of the interpreter
    cs_call,           \* the call made: string_content and max_count
    cs_answer,         \* what the call returned
    \* ---- create_dynamic_graph on call graphs with cycles (construct_graph.py) ----
    dg_inst,           \* inst_graph.edges
    dg_built,          \* the repo graph after create_dynamic_graph
    dg_descent,        \* the calls of get_all_matched_successors made: node and result
    \* ---- create_static_graph on a file with nested classes (construct_graph.py) ----
    st_tags,           \* the tags of the file, in the order parse_file creates them
    st_built,          \* the static graph, or the exception that stopped its construction
    \* ---- the transcripts of the branches of a search run (pingfl_agent.py, memory.py) ----
    search_json,       \* <<>> without use_ablation, else <<the messages of the saved memory>>
    tr_processes,      \* process id -> pc, memory.messages, function_calls, single_tool_call_msg
    tr_counter,        \* process ids handed out
    \* ---- prepare_debug_inputs: the selection of the test cases (debug_agent.py) ----
    sel_classes,       \* test_failure.test_classes: the test cases of every test class
    max_test_cases,    \* config.hyper.max_test_cases
    sel_test_cases,    \* the local test_cases, whose lists cs.pop() shortens
    new_test_cases,    \* the local new_test_cases
    sel_at,            \* the position of the for loop in test_cases
    sel_pc,            \* "start", "select", "selected", "raised"
    \* ---- DebugAgent.run: the debug states and the result report (debug_agent.py) ----
    fr_num_process,    \* DebugAgent.num_process
    fr_parallel,       \* config.hyper.parallel_search
    fr_states,         \* DebugAgent.debug_states of the main process
    fr_results,        \* what debug_process came to for the test cases debugged so far
    fr_report,         \* <<>>, or <<the entries of the result report>>
    fr_pc,             \* "run", "debugged", "reported", "raised"
    \* ---- nominate_suspicious_method in a search branch (pingfl_agent.py) ----
    nm_searcher,       \* PingflAgent.searcher
    nm_seed,           \* the hash seed of the interpreter
    nm_process,        \* the ProcessState of the branch: pc, memory, function_calls, verify_rounds
    nm_verified        \* the calls of VerifyAgent.run so far

dsVars == <<parallel_search, max_rounds, current_round, completed, found_bug,
            round_results, dpc, derr, pending, files, first_ret, last_ret,
            agent_runs, crashes>>

fanVars == <<hyper, cur_paths, process_counter, processes, futures, threads, run_state>>

editVars == <<e_lines, e_interval, e_command, e_result, e_file, epc>>

verifyVars == <<vpc, ws, v_transcript, retry_msg_idx, retry_round, edit_count,
                retry_count, tests_run, v_cmd, verr, v_turns, v_runs>>

graphVars == <<src_tags, tag_objs, all_graphs, combined_graph, gpc>>

searchVars == <<s_nodes, repo_searcher, hash_seed, s_call, s_answer, s_prev>>

poolVars == <<num_process, case_status, da_results, da_pc>>

playVars == <<play_nodes, nominated, verify_inputs, play_status, play_dirs, play_pc>>

toolVars == <<tool_agent, branches, search_run>>

promptVars == <<rp_loop, rp_messages, rp_malformed, rp_pc>>

copyVars == <<cp_heap, cp_processes, cp_counter>>

pollVars == <<pl_futures, pl_branches, pl_counter, pl_poll, pl_run>>

lockVars == <<lk_holder, lk_pc, lk_book, lk_log>>

containVars == <<cs_methods, cs_seed, cs_call, cs_answer>>

dynVars == <<dg_inst, dg_built, dg_descent>>

staticVars == <<st_tags, st_built>>

transcriptVars == <<search_json, tr_processes, tr_counter>>

selectVars == <<sel_classes, max_test_cases, sel_test_cases, new_test_cases, sel_at, sel_pc>>

reportVars == <<fr_num_process, fr_parallel, fr_states, fr_results, fr_report, fr_pc>>

nominateVars == <<nm_searcher, nm_seed, nm_process, nm_verified>>

vars == <<dsVars, fanVars, editVars, verifyVars, graphVars, searchVars, poolVars, playVars, toolVars, promptVars, copyVars, pollVars, lockVars, containVars, dynVars, staticVars, transcriptVars, selectVars, reportVars, nominateVars>>

\* What the actions of one subsystem leave alone.
notRound == <<fanVars, editVars, verifyVars, graphVars, searchVars, poolVars, playVars, toolVars, promptVars, copyVars, pollVars, lockVars, containVars, dynVars, staticVars, transcriptVars, selectVars, reportVars, nominateVars>>

notFan == <<dsVars, editVars, verifyVars, graphVars, searchVars, poolVars, playVars, toolVars, promptVars, copyVars, pollVars, lockVars, containVars, dynVars, staticVars, transcriptVars, selectVars, reportVars, nominateVars>>

notEdit == <<dsVars, fanVars, verifyVars, graphVars, searchVars, poolVars, playVars, toolVars, promptVars, copyVars, pollVars, lockVars, containVars, dynVars, staticVars, transcriptVars, selectVars, reportVars, nominateVars>>

notVerify == <<dsVars, fanVars, editVars, graphVars, searchVars, poolVars, playVars, toolVars, promptVars, copyVars, pollVars, lockVars, containVars, dynVars, staticVars, transcriptVars, selectVars, reportVars, nominateVars>>

notGraph == <<dsVars, fanVars, editVars, verifyVars, searchVars, poolVars, playVars, toolVars, promptVars, copyVars, pollVars, lockVars, containVars, dynVars, staticVars, transcriptVars, selectVars, reportVars, nominateVars>>

notSearch == <<dsVars, fanVars, editVars, verifyVars, graphVars, poolVars, playVars, toolVars, promptVars, copyVars, pollVars, lockVars, containVars, dynVars, staticVars, transcriptVars, selectVars, reportVars, nominateVars>>

notPool == <<dsVars, fanVars, editVars, verifyVars, graphVars, searchVars, playVars, toolVars, promptVars, copyVars, pollVars, lockVars, containVars, dynVars, staticVars, transcriptVars, selectVars, reportVars, nominateVars>>

notPlay == <<dsVars, fanVars, editVars, verifyVars, graphVars, searchVars, poolVars, toolVars, promptVars, copyVars, pollVars, lockVars, containVars, dynVars, staticVars, transcriptVars, selectVars, reportVars, nominateVars>>

notTool == <<dsVars, fanVars, editVars, verifyVars, graphVars, searchVars, poolVars, playVars, promptVars, copyVars, pollVars, lockVars, containVars, dynVars, staticVars, transcriptVars, selectVars, reportVars, nominateVars>>

notPrompt == <<dsVars, fanVars, editVars, verifyVars, graphVars, searchVars, poolVars, playVars, toolVars, copyVars, pollVars, lockVars, containVars, dynVars, staticVars, transcriptVars, selectVars, reportVars, nominateVars>>

notCopy == <<dsVars, fanVars, editVars, verifyVars, graphVars, searchVars, poolVars, playVars, toolVars, promptVars, pollVars, lockVars, containVars, dynVars, staticVars, transcriptVars, selectVars, reportVars, nominateVars>>

notPoll == <<dsVars, fanVars, editVars, verifyVars, graphVars, searchVars, poolVars, playVars, toolVars, promptVars, copyVars, lockVars, containVars, dynVars, staticVars, transcriptVars, selectVars, reportVars, nominateVars>>

notLock == <<dsVars, fanVars, editVars, verifyVars, graphVars, searchVars, poolVars, playVars, toolVars, promptVars, copyVars, pollVars, containVars, dynVars, staticVars, transcriptVars, selectVars, reportVars, nominateVars>>

notContain == <<dsVars, fanVars, editVars, verifyVars, graphVars, searchVars, poolVars, playVars, toolVars, promptVars, copyVars, pollVars, lockVars, dynVars, staticVars, transcriptVars, selectVars, reportVars, nominateVars>>

notDyn == <<dsVars, fanVars, editVars, verifyVars, graphVars, searchVars, poolVars, playVars, toolVars, promptVars, copyVars, pollVars, lockVars, containVars, staticVars, transcriptVars, selectVars, reportVars, nominateVars>>

notStatic == <<dsVars, fanVars, editVars, verifyVars, graphVars, searchVars, poolVars, playVars, toolVars, promptVars, copyVars, pollVars, lockVars, containVars, dynVars, transcriptVars, selectVars, reportVars, nominateVars>>

notTranscript == <<dsVars, fanVars, editVars, verifyVars, graphVars, searchVars, poolVars, playVars, toolVars, promptVars, copyVars, pollVars, lockVars, containVars, dynVars, staticVars, selectVars, reportVars, nominateVars>>

notSelect == <<dsVars, fanVars, editVars, verifyVars, graphVars, searchVars, poolVars, playVars, toolVars, promptVars, copyVars, pollVars, lockVars, containVars, dynVars, staticVars, transcriptVars, reportVars, nominateVars>>

notReport == <<dsVars, fanVars, editVars, verifyVars, graphVars, searchVars, poolVars, playVars, toolVars, promptVars, copyVars, pollVars, lockVars, containVars, dynVars, staticVars, transcriptVars, selectVars, nominateVars>>

notNominate == <<dsVars, fanVars, editVars, verifyVars, graphVars, searchVars, poolVars, playVars, toolVars, promptVars, copyVars, pollVars, lockVars, containVars, dynVars, staticVars, transcriptVars, selectVars, reportVars>>

-----------------------------------------------------------------------------
(* Generic helpers *)

\* A file of the output directory: absent, or present with its text.
Absent == [exists |-> FALSE, text |-> <<>>]

Present(text) == [exists |-> TRUE, text |-> text]

\* A value returned by run_search / run_verify, with the branch that produced it.
NoReturn == [kind |-> "none", round |-> 0, cached |-> FALSE, value |-> <<>>]

Returned(kind, round, cached, value) ==
    [kind |-> kind, round |-> round, cached |-> cached, value |-> value]

\* History of the run that wrote a results file: the list it returned and how often
\* the agent of that round had been invoked by then.
NotWritten == [exists |-> FALSE, value |-> <<>>, runs |-> 0]

Written(value, runs) == [exists |-> TRUE, value |-> value, runs |-> runs]

Range(s) == {s[i] : i \in 1..Len(s)}

Min2(a, b) == IF a <= b THEN a ELSE b

Max2(a, b) == IF a >= b THEN a ELSE b

\* Python's sep.join(parts) over token sequences: the parts with sep between them.
RECURSIVE Join(_, _)
Join(sep, parts) ==
    IF parts = <<>> THEN <<>>
    ELSE IF Len(parts) = 1 THEN <<parts[1]>>
    ELSE <<parts[1], sep>> \o Join(sep, Tail(parts))

-----------------------------------------------------------------------------
(* Bounds and input domains of the round machine *)

MaxCrashes == 1

DefaultMaxRounds == 3

MethodIds == {"m1", "m2"}

Categories == {"buggy", "benign", "uncertain"}

\* What the search oracle can nominate in one round: the "results" list of
\* {"method_id", "error_analysis"} objects parsed from the branches' final answers.
Nom(m, h) == [method_id |-> m, error_analysis |-> h]

NominationLists ==
    { <<>>,
      <<Nom("m1", "h1")>>,
      <<Nom("m1", "h1"), Nom("m1", "h2")>>,
      <<Nom("m2", "h2"), Nom("m1", "h1")>> }

-----------------------------------------------------------------------------
(* DebugState: pure helpers *)

\* DebugState.build_search_results: one SearchResult per method id, in order of first
\* occurrence, the analyses of the same method joined by a blank line.
RECURSIVE FirstIds(_, _)
FirstIds(results, seen) ==
    IF results = <<>> THEN <<>>
    ELSE IF Head(results).method_id \in seen THEN FirstIds(Tail(results), seen)
    ELSE <<Head(results).method_id>>
             \o FirstIds(Tail(results), seen \cup {Head(results).method_id})

RECURSIVE AnalysesOf(_, _)
AnalysesOf(results, m) ==
    IF results = <<>> THEN <<>>
    ELSE (IF Head(results).method_id = m THEN <<Head(results).error_analysis>> ELSE <<>>)
             \o AnalysesOf(Tail(results), m)

build_search_results(results) ==
    LET ids == FirstIds(results, {})
    IN  [i \in 1..Len(ids) |->
            [error_analysis |-> Join("\n\n", AnalysesOf(results, ids[i])),
             method_id |-> ids[i]]]

\* DebugState.build_verify_results: one VerifyResult per entry, in order.
build_verify_results(results) ==
    [i \in 1..Len(results) |->
        [method_id |-> results[i].method_id, category |-> results[i].category]]

\* json.dumps / json.loads of the "results" list of a results file: the list is
\* written as a flat token stream, two tokens per object, and read back from it.
DumpsSearch(results) ==
    [i \in 1..(2 * Len(results)) |->
        IF i % 2 = 1 THEN results[(i + 1) \div 2].method_id
        ELSE results[i \div 2].error_analysis]

LoadsSearch(text) ==
    [i \in 1..(Len(text) \div 2) |->
        [method_id |-> text[2 * i - 1], error_analysis |-> text[2 * i]]]

DumpsVerify(results) ==
    [i \in 1..(2 * Len(results)) |->
        IF i % 2 = 1 THEN results[(i + 1) \div 2].method_id
        ELSE results[i \div 2].category]

LoadsVerify(text) ==
    [i \in 1..(Len(text) \div 2) |->
        [method_id |-> text[2 * i - 1], category |-> text[2 * i]]]

\* Mutant: the cached results are rebuilt without merging the analyses per method.
load_search_result_unmerged(text) ==
    LET results == LoadsSearch(text)
    IN  [i \in 1..Len(results) |->
            [error_analysis |-> <<results[i].error_analysis>>,
             method_id |-> results[i].method_id]]

\* DebugState.load_search_result / load_verify_results
load_search_result(text) == build_search_results(LoadsSearch(text))

load_verify_results(text) == build_verify_results(LoadsVerify(text))

\* DebugState.current_round_result for round number n: whether the lookup
\* round_results[n - 1] succeeds (otherwise the IndexError is caught and None is
\* returned), and the RoundResult when it does.
has_round_result(rr, n) == n - 1 < Len(rr)

current_round_result(rr, n) == rr[n]

HasBuggy(verify_results) ==
    \E i \in 1..Len(verify_results) : verify_results[i].category = "buggy"

\* DebugState.update_round as a function of the state before it: the state after,
\* and whether it raised.  current_round is incremented first; the "latest" round
\* result is then read at the incremented index.
update_round(rr, cr, mr, ps, comp, fb) ==
    LET cr1   == cr + 1
        comp1 == IF cr1 > mr THEN TRUE ELSE comp
        latest == current_round_result(rr, cr1)
        isNone == ~has_round_result(rr, cr1)
    IN  IF ps
        THEN [current_round |-> cr1, completed |-> comp1, found_bug |-> fb,
              raised |-> "none"]
        ELSE IF isNone
        THEN [current_round |-> cr1, completed |-> comp1, found_bug |-> fb,
              raised |-> "AttributeError"]
        ELSE [current_round |-> cr1,
              completed |-> (comp1 \/ HasBuggy(latest.verify_results)),
              found_bug |-> (fb \/ HasBuggy(latest.verify_results)),
              raised |-> "none"]

\* The method ids of the results of one category, in order.
RECURSIVE methods_of(_, _)
methods_of(verify_results, category) ==
    IF verify_results = <<>> THEN <<>>
    ELSE IF Head(verify_results).category = category
    THEN <<Head(verify_results).method_id>> \o methods_of(Tail(verify_results), category)
    ELSE methods_of(Tail(verify_results), category)

\* Mutant: every result that is not uncertain is reported as benign.
get_experience_with_buggy(rr, cr) ==
    IF cr = 1 THEN ""
    ELSE [benign_methods |->
              Join("\n\n", methods_of(rr[cr - 1].verify_results, "benign")
                           \o methods_of(rr[cr - 1].verify_results, "buggy")),
          uncertain_methods |->
              Join("\n\n", methods_of(rr[cr - 1].verify_results, "uncertain"))]

\* DebugState.get_experience: the empty text in round 1, else the two arguments of
\* EXPERIENCE_PROMPT.format, made of the results at round_results[current_round - 2]
\* (a list index from 0: the entry cr - 1 of the sequence).
get_experience(rr, cr) ==
    IF cr = 1 THEN ""
    ELSE [benign_methods |->
              Join("\n\n", methods_of(rr[cr - 1].verify_results, "benign")),
          uncertain_methods |->
              Join("\n\n", methods_of(rr[cr - 1].verify_results, "uncertain"))]

\* DebugState.prepare_search_input: the SearchInput of the round (the test's name,
\* code and error message are the same in every round).
prepare_search_input(rr, cr) == [experience |-> get_experience(rr, cr)]

-----------------------------------------------------------------------------
(* debug_process *)

Rounds == 1..(DefaultMaxRounds + 1)

NoFiles == [n \in Rounds |-> [search |-> Absent, verify |-> Absent]]

FreshDebugState ==
    /\ current_round = 1
    /\ completed = FALSE
    /\ found_bug = FALSE
    /\ round_results = <<>>
    /\ dpc = "loop"
    /\ derr = "none"
    /\ pending = <<>>
    /\ last_ret = NoReturn

RoundStart ==
    /\ parallel_search \in BOOLEAN
    /\ max_rounds \in 1..DefaultMaxRounds
    /\ FreshDebugState
    /\ files = NoFiles
    /\ first_ret = [n \in Rounds |-> [search |-> NotWritten, verify |-> NotWritten]]
    /\ agent_runs = [n \in Rounds |-> [search |-> 0, verify |-> 0]]
    /\ crashes = 0

dsConfig == <<parallel_search, max_rounds>>

dsState == <<current_round, completed, found_bug, round_results>>

dsHist == <<first_ret, agent_runs, crashes>>

\* while not debug_state.completed
LoopTest ==
    /\ dpc = "loop"
    /\ dpc' = IF completed THEN "done" ELSE "search"
    /\ UNCHANGED <<notRound, dsConfig, dsState, derr, pending, files, last_ret, dsHist>>

\* run_search, cached branch: the results file of the round exists.
SearchCached ==
    /\ dpc = "search"
    /\ files[current_round].search.exists
    /\ last_ret' = Returned("search", current_round, TRUE,
                         load_search_result(files[current_round].search.text))
    /\ round_results' =
           Append(round_results,
                  [search_results |-> load_search_result(files[current_round].search.text),
                   verify_results |-> <<>>])
    /\ dpc' = "verify"
    /\ UNCHANGED <<notRound, dsConfig, current_round, completed, found_bug, derr, pending,
                   files, dsHist>>

\* run_search, fresh branch: search_agent.run(search_input) returns the memories.
SearchAgentRun ==
    /\ dpc = "search"
    /\ ~files[current_round].search.exists
    /\ \E noms \in NominationLists : pending' = noms
    /\ agent_runs' = [agent_runs EXCEPT ![current_round].search = @ + 1]
    /\ dpc' = "search_write"
    /\ UNCHANGED <<notRound, dsConfig, dsState, derr, files, last_ret, first_ret, crashes>>

\* search_agent.run raises ("Search agent encountered exceptions").
SearchAgentRaises ==
    /\ dpc = "search"
    /\ ~files[current_round].search.exists
    /\ agent_runs' = [agent_runs EXCEPT ![current_round].search = @ + 1]
    /\ dpc' = "failed"
    /\ derr' = "SearchAgent"
    /\ UNCHANGED <<notRound, dsConfig, dsState, pending, files, last_ret, first_ret, crashes>>

\* DebugState.get_search_results writes search_results.json and returns the list;
\* debug_process then appends the RoundResult (add_search_results).
SearchWrite ==
    /\ dpc = "search_write"
    /\ files' = [files EXCEPT ![current_round].search = Present(DumpsSearch(pending))]
    /\ last_ret' = Returned("search", current_round, FALSE, build_search_results(pending))
    /\ first_ret' = [first_ret EXCEPT ![current_round].search =
               Written(build_search_results(pending), agent_runs[current_round].search)]
    /\ round_results' =
           Append(round_results,
                  [search_results |-> build_search_results(pending),
                   verify_results |-> <<>>])
    /\ pending' = <<>>
    /\ dpc' = "verify"
    /\ UNCHANGED <<notRound, dsConfig, current_round, completed, found_bug, derr,
                   agent_runs, crashes>>

\* The verdict lists the verify agent can produce for the nominations of the round.
VerdictLists(search_results) ==
    {v \in [1..Len(search_results) -> [method_id : MethodIds, category : Categories]] :
        \A i \in 1..Len(search_results) : v[i].method_id = search_results[i].method_id}

\* run_verify, cached branch, then add_verify_results.
VerifyCached ==
    /\ dpc = "verify"
    /\ files[current_round].verify.exists
    /\ last_ret' = Returned("verify", current_round, TRUE,
                         load_verify_results(files[current_round].verify.text))
    /\ round_results' =
           [round_results EXCEPT ![current_round].verify_results =
                load_verify_results(files[current_round].verify.text)]
    /\ dpc' = "update"
    /\ UNCHANGED <<notRound, dsConfig, current_round, completed, found_bug, derr, pending,
                   files, dsHist>>

\* run_verify, fresh branch: verify_agent.run(verify_inputs) returns the memories.
VerifyAgentRun ==
    /\ dpc = "verify"
    /\ ~files[current_round].verify.exists
    /\ \E v \in VerdictLists(round_results[current_round].search_results) :
           pending' = v
    /\ agent_runs' = [agent_runs EXCEPT ![current_round].verify = @ + 1]
    /\ dpc' = "verify_write"
    /\ UNCHANGED <<notRound, dsConfig, dsState, derr, files, last_ret, first_ret, crashes>>

\* verify_agent.run re-raises the exception of a failed verification.
VerifyAgentRaises ==
    /\ dpc = "verify"
    /\ ~files[current_round].verify.exists
    /\ round_results[current_round].search_results # <<>>
    /\ agent_runs' = [agent_runs EXCEPT ![current_round].verify = @ + 1]
    /\ dpc' = "failed"
    /\ derr' = "VerifyAgent"
    /\ UNCHANGED <<notRound, dsConfig, dsState, pending, files, last_ret, first_ret, crashes>>

\* DebugState.get_verify_results writes verify_results.json and returns the list;
\* debug_process then stores it in the current RoundResult (add_verify_results).
VerifyWrite ==
    /\ dpc = "verify_write"
    /\ files' = [files EXCEPT ![current_round].verify = Present(DumpsVerify(pending))]
    /\ last_ret' = Returned("verify", current_round, FALSE, build_verify_results(pending))
    /\ first_ret' = [first_ret EXCEPT ![current_round].verify =
               Written(build_verify_results(pending), agent_runs[current_round].verify)]
    /\ round_results' =
           [round_results EXCEPT ![current_round].verify_results =
                build_verify_results(pending)]
    /\ pending' = <<>>
    /\ dpc' = "update"
    /\ UNCHANGED <<notRound, dsConfig, current_round, completed, found_bug, derr,
                   agent_runs, crashes>>

\* debug_state.update_round()
UpdateRound ==
    /\ dpc = "update"
    /\ LET u == update_round(round_results, current_round, max_rounds,
                             parallel_search, completed, found_bug)
       IN  /\ current_round' = u.current_round
           /\ completed' = u.completed
           /\ found_bug' = u.found_bug
           /\ derr' = u.raised
           /\ dpc' = IF u.raised = "none" THEN "loop" ELSE "failed"
    /\ UNCHANGED <<notRound, dsConfig, round_results, pending, files, last_ret, dsHist>>

\* The process dies at any point and debug_process is started again on a new
\* DebugState; only the files survive.
CrashRestart ==
    /\ dpc # "done"
    /\ crashes < MaxCrashes
    /\ crashes' = crashes + 1
    /\ current_round' = 1
    /\ completed' = FALSE
    /\ found_bug' = FALSE
    /\ round_results' = <<>>
    /\ dpc' = "loop"
    /\ derr' = "none"
    /\ pending' = <<>>
    /\ last_ret' = NoReturn
    /\ UNCHANGED <<notRound, dsConfig, files, first_ret, agent_runs>>

RoundNext ==
    \/ LoopTest
    \/ SearchCached
    \/ SearchAgentRun
    \/ SearchAgentRaises
    \/ SearchWrite
    \/ VerifyCached
    \/ VerifyAgentRun
    \/ VerifyAgentRaises
    \/ VerifyWrite
    \/ UpdateRound
    \/ CrashRestart

-----------------------------------------------------------------------------
(* PingflAgent: one search run with its process tree *)

\* The largest number of tool calls the oracle asks for in one turn.
MaxTurnCalls == 3

\* The budgets of config.hyper tried: paths, parallel tool calls, tool calls per
\* lineage, verify rounds and pool workers.
Hyper(paths, parallel, calls, rounds, workers) ==
    [max_search_paths |-> paths, max_parallel_tool_calls |-> parallel,
     max_tool_calls |-> calls, max_verify_rounds |-> rounds, search_workers |-> workers]

HyperConfigs ==
    { Hyper(1, 1, 3, 1, 1),
      Hyper(1, 3, 3, 2, 2),
      Hyper(2, 2, 3, 1, 2),
      Hyper(2, 3, 3, 2, 2),
      Hyper(3, 3, 2, 1, 2),
      Hyper(3, 3, 3, 1, 1),
      Hyper(1, 1, 5, 2, 1) }

\* What executing one requested tool call can come to (PingflAgent.execute_function
\* under the try of run_process).
ToolOutcomes == {"searched", "raised", "verified"}

\* The name run_process appends to process.function_calls for an outcome.
RecordedCall(outcome) ==
    CASE outcome = "searched" -> "search_tool"
      [] outcome = "raised" -> "retry"
      [] outcome = "verified" -> "nominate_suspicious_method"

\* ProcessState of pingfl_agent.py: the lineage id, the function-call trace and the
\* verify-round counter (input, llm and memory are not modelled here).
NewProcessState(id, function_calls) ==
    [id |-> id, function_calls |-> function_calls, verify_rounds |-> 0]

num_function_calls(process) == Len(process.function_calls)

\* str(n) of a number.
RECURSIVE str(_)
str(n) ==
    LET digit == <<"0", "1", "2", "3", "4", "5", "6", "7", "8", "9">>[(n % 10) + 1]
    IN  IF n < 10 THEN <<digit>> ELSE str(n \div 10) \o <<digit>>

\* Mutant: the id of a child made of its parent's id and the number of digits of
\* the process counter.
lineage_id_by_digits(parent_id, process_id) ==
    parent_id \o <<"-">> \o str(Len(str(process_id)))

\* create_process: id=f"{parent_process.id}-{process_id}"
lineage_id(parent_id, process_id) ==
    parent_id \o <<"-">> \o str(process_id)

\* A run_process call submitted to the thread pool; tmp_messages are the messages
\* its next oracle call is given after those of the memory.
Thread(pc, call) ==
    [pc |-> pc, call |-> call, width |-> 0, created |-> 0, tmp_messages |-> <<>>]

Running == {p \in DOMAIN threads : threads[p].pc \in {"turn", "forking"}}

\* Mutant: the fan-out width without the path budget.
fork_width_unbudgeted(n_tool_calls, maxParallel, maxPaths, curPaths) ==
    Min2(n_tool_calls, maxParallel)

\* Mutant: the fan-out width of a turn taken under the budget, without the paths
\* that are left of it.
fork_width_whole_turn(n_tool_calls, maxParallel, maxPaths, curPaths) ==
    IF curPaths >= maxPaths
    THEN 1
    ELSE Min2(n_tool_calls, maxParallel)

\* Mutant: the fan-out width with the parent's own path counted among the new ones.
fork_width_parent_counted(n_tool_calls, maxParallel, maxPaths, curPaths) ==
    IF curPaths >= maxPaths
    THEN 1
    ELSE Min2(Min2(n_tool_calls, maxParallel), maxPaths - curPaths)

\* process_function_calls, first locked block: the number of children to create for
\* a turn with n_tool_calls requests (the local max_parallel).
fork_width(n_tool_calls, maxParallel, maxPaths, curPaths) ==
    IF curPaths >= maxPaths
    THEN 1
    ELSE Min2(Min2(n_tool_calls, maxParallel) - 1, maxPaths - curPaths) + 1

\* Removing a key from the process map (dict.pop).
Pop(map, key) == [q \in DOMAIN map \ {key} |-> map[q]]

\* Adding a key to a map (dict assignment).
Put(map, key, value) == [q \in DOMAIN map \cup {key} |-> IF q = key THEN value ELSE map[q]]

\* PingflAgent.__init__
FanStart ==
    /\ hyper \in HyperConfigs
    /\ cur_paths = 1
    /\ process_counter = 0
    /\ processes = <<>>
    /\ futures = {}
    /\ threads = <<>>
    /\ run_state = "init"

\* PingflAgent.run, up to the polling loop: create_process(input), init_memory and
\* the submission of the entry process.
RunEntry ==
    /\ run_state = "init"
    /\ processes' = Put(processes, process_counter,
                        NewProcessState(str(process_counter), <<"get_covered_classes">>))
    /\ threads' = Put(threads, process_counter, Thread("queued", "none"))
    /\ futures' = futures \cup {process_counter}
    /\ process_counter' = process_counter + 1
    /\ run_state' = "waiting"
    /\ UNCHANGED <<notFan, hyper, cur_paths>>

\* A pool worker picks up run_process(process_id, single_tool_call_msg) and executes
\* the tool call of the message, if there is one.
StartProcess(p) ==
    /\ p \in DOMAIN threads
    /\ threads[p].pc = "queued"
    /\ Cardinality(Running) < hyper.search_workers
    /\ threads' = [threads EXCEPT ![p] = Thread("turn", "none")]
    /\ IF threads[p].call = "none"
       THEN processes' = processes
       ELSE processes' =
                [processes EXCEPT
                    ![p].function_calls = Append(@, RecordedCall(threads[p].call)),
                    ![p].verify_rounds =
                        IF threads[p].call = "verified" THEN @ + 1 ELSE @]
    /\ UNCHANGED <<notFan, hyper, cur_paths, process_counter, futures, run_state>>

\* run_process: the branch has used up its tool calls or verify rounds.
LimitReached(p) ==
    \/ num_function_calls(processes[p]) >= hyper.max_tool_calls
    \/ processes[p].verify_rounds >= hyper.max_verify_rounds

\* The turn ends the branch: the forced exit_debugging message, or the oracle's own
\* exit_debugging call, followed by the fault localization answer.
TerminalTurn(p) ==
    /\ p \in DOMAIN threads
    /\ threads[p].pc = "turn"
    /\ threads' = [threads EXCEPT ![p].pc = "done"]
    /\ UNCHANGED <<notFan, hyper, cur_paths, process_counter, processes, futures,
                   run_state>>

\* The oracle call of the turn raises: the future ends with the exception.
OracleRaises(p) ==
    /\ p \in DOMAIN threads
    /\ threads[p].pc = "turn"
    /\ ~LimitReached(p)
    /\ threads' = [threads EXCEPT ![p].pc = "raised"]
    /\ UNCHANGED <<notFan, hyper, cur_paths, process_counter, processes, futures,
                   run_state>>

\* The oracle asks for k tool calls; process_function_calls takes the lock, fixes
\* the number of children and books them in cur_paths.
ToolCallTurn(p, k) ==
    /\ p \in DOMAIN threads
    /\ threads[p].pc = "turn"
    /\ ~LimitReached(p)
    /\ LET w == fork_width(k, hyper.max_parallel_tool_calls,
                           hyper.max_search_paths, cur_paths)
       IN  /\ threads' = [threads EXCEPT ![p].pc = "forking", ![p].width = w,
                                         ![p].created = 0]
           /\ cur_paths' = IF w > 1 THEN cur_paths + (w - 1) ELSE cur_paths
    /\ UNCHANGED <<notFan, hyper, process_counter, processes, futures, run_state>>

\* One iteration of the loop of process_function_calls: create_process with the
\* parent's id, and the submission of the child with its single tool call.
CreateChild(p, outcome) ==
    /\ p \in DOMAIN threads
    /\ threads[p].pc = "forking"
    /\ threads[p].created < threads[p].width
    /\ processes' = Put(processes, process_counter,
                        NewProcessState(lineage_id(processes[p].id, process_counter),
                                        processes[p].function_calls))
    /\ threads' = Put([threads EXCEPT ![p].created = @ + 1],
                      process_counter, Thread("queued", outcome))
    /\ futures' = futures \cup {process_counter}
    /\ process_counter' = process_counter + 1
    /\ UNCHANGED <<notFan, hyper, cur_paths, run_state>>

\* process_function_calls, last locked block: the parent and its future are removed.
RetireParent(p) ==
    /\ p \in DOMAIN threads
    /\ threads[p].pc = "forking"
    /\ threads[p].created = threads[p].width
    /\ processes' = Pop(processes, p)
    /\ futures' = futures \ {p}
    /\ threads' = [threads EXCEPT ![p] = Thread("retired", "none")]
    /\ UNCHANGED <<notFan, hyper, cur_paths, process_counter, run_state>>

\* PingflAgent.run: the polling loop sees every tracked future done, then raises if
\* one of them ended with an exception, else saves the memories.
RunReturns ==
    /\ run_state = "waiting"
    /\ \A p \in futures : threads[p].pc \in {"done", "raised", "retired"}
    /\ run_state' = IF \E p \in futures : threads[p].pc = "raised"
                    THEN "raised" ELSE "saved"
    /\ UNCHANGED <<notFan, hyper, cur_paths, process_counter, processes, futures,
                   threads>>

\* The process ids a run can hand out: one per branch of a tree no wider than the
\* path budget and no deeper than the tool-call budget.
MaxPid == 16

Pids == 0..MaxPid

FanNext ==
    \/ RunEntry
    \/ \E p \in Pids : StartProcess(p)
    \/ \E p \in Pids : TerminalTurn(p)
    \/ \E p \in Pids : OracleRaises(p)
    \/ \E p \in Pids, k \in 1..MaxTurnCalls : ToolCallTurn(p, k)
    \/ \E p \in Pids, outcome \in ToolOutcomes : CreateChild(p, outcome)
    \/ \E p \in Pids : RetireParent(p)
    \/ RunReturns

-----------------------------------------------------------------------------
(* Text: Python str modelled as a sequence of characters. A Java statement is *)
(* one character; the markers of an edit command are one character each.      *)

NL == "\n"

\* text[a:b] and lines[a:b] for 0 <= a, b (Python slicing, clamped to the length).
Slice(s, a, b) == SubSeq(s, Min2(a, Len(s)) + 1, Min2(b, Len(s)))

\* The position of the first occurrence of sub in s, or 0 (str.find, 1-based).
Find(sub, s) ==
    LET at == {i \in 1..(Len(s) - Len(sub) + 1) : SubSeq(s, i, i + Len(sub) - 1) = sub}
    IN  IF at = {} THEN 0 ELSE CHOOSE i \in at : \A j \in at : i <= j

\* sub in s
IsIn(sub, s) == Find(sub, s) # 0

\* s.replace(old, new): every non-overlapping occurrence, from the left.
RECURSIVE Replace(_, _, _)
Replace(s, old, new) ==
    IF old = <<>>
    THEN IF s = <<>> THEN new ELSE new \o <<Head(s)>> \o Replace(Tail(s), old, new)
    ELSE LET i == Find(old, s)
         IN  IF i = 0 THEN s
             ELSE SubSeq(s, 1, i - 1) \o new
                  \o Replace(SubSeq(s, i + Len(old), Len(s)), old, new)

\* s.count(sub): the number of non-overlapping occurrences.
RECURSIVE Count(_, _)
Count(s, sub) ==
    IF sub = <<>> THEN Len(s) + 1
    ELSE LET i == Find(sub, s)
         IN  IF i = 0 THEN 0
             ELSE 1 + Count(SubSeq(s, i + Len(sub), Len(s)), sub)

\* s.split("\n")
RECURSIVE SplitNL(_)
SplitNL(s) ==
    LET i == Find(<<NL>>, s)
    IN  IF i = 0 THEN <<s>>
        ELSE <<SubSeq(s, 1, i - 1)>> \o SplitNL(SubSeq(s, i + 1, Len(s)))

\* s.splitlines(): a final line break does not open another line.
splitlines(s) ==
    LET parts == SplitNL(s)
    IN  IF parts[Len(parts)] = <<>> THEN SubSeq(parts, 1, Len(parts) - 1) ELSE parts

\* "\n".join(lines)
RECURSIVE JoinLines(_)
JoinLines(lines) ==
    IF lines = <<>> THEN <<>>
    ELSE IF Len(lines) = 1 THEN lines[1]
    ELSE lines[1] \o <<NL>> \o JoinLines(Tail(lines))

-----------------------------------------------------------------------------
(* Edit commands: extract_search_replace_block and                           *)
(* apply_edit_commands_search_replace                                        *)

\* The markers "<<<<<<< SEARCH", "=======" (one character of it) and
\* ">>>>>>> REPLACE" of the SEARCH/REPLACE format.
SearchMark == "<S"

SepChar == "="

ReplaceMark == ">R"

\* The lines kept around the method as the window of an edit.
WindowMargin == 6

\* re.search(r"<+ SEARCH\n(.*?)\n=+\n(.*?)\n>+ REPLACE", text, re.DOTALL): the
\* leftmost start, then the shortest first and second group that let the rest match.
\* A match is <<start, end of group 1, start of group 2, end of group 2>>.
SearchReplaceMatches(text) ==
    LET n == Len(text)
        heads == {i \in 1..(n - 1) : text[i] = SearchMark /\ text[i + 1] = NL}
        seps == {je \in (1..n) \X (1..n) :
                    /\ je[2] >= je[1] + 2
                    /\ text[je[1]] = NL /\ text[je[2]] = NL
                    /\ \A i \in (je[1] + 1)..(je[2] - 1) : text[i] = SepChar}
        tails == {k \in 1..(n - 1) : text[k] = NL /\ text[k + 1] = ReplaceMark}
    IN  {<<h, je[1], je[2], k>> : <<h, je, k>> \in
            {t \in heads \X seps \X tails :
                t[2][1] >= t[1] + 2 /\ t[3] >= t[2][2] + 1}}

NoMatch == [found |-> FALSE, search_text |-> <<>>, replace_text |-> <<>>]

extract_search_replace_block(text) ==
    LET ms == SearchReplaceMatches(text)
        Before(m, n) ==
            \/ m[1] < n[1]
            \/ m[1] = n[1] /\ m[2] < n[2]
            \/ m[1] = n[1] /\ m[2] = n[2] /\ m[4] <= n[4]
    IN  IF ms = {} THEN NoMatch
        ELSE LET m == CHOOSE m \in ms : \A n \in ms : Before(m, n)
             IN  [found |-> TRUE,
                  search_text |-> SubSeq(text, m[1] + 2, m[2] - 1),
                  replace_text |-> SubSeq(text, m[3] + 1, m[4] - 1)]

\* The outcome of an edit: the exception raised ("none" when it returns) and the
\* returned (content, extra_lines).
Edited(raised, content, extra_lines) ==
    [raised |-> raised, content |-> content, extra_lines |-> extra_lines]

\* The window of the method: content_lines[start_line:end_line] between two "\n".
context_window(content, method_loc_interval) ==
    LET content_lines == splitlines(content)
        start_line == Max2(method_loc_interval[1] - WindowMargin, 0)
        end_line == method_loc_interval[2] + WindowMargin
    IN  <<NL>> \o JoinLines(Slice(content_lines, start_line, end_line)) \o <<NL>>

\* Mutant: the edit applied without the test that the search text occurs.
apply_edit_commands_unchecked(edit_command, content, method_loc_interval) ==
    LET content_lines == splitlines(content)
        start_line == Max2(method_loc_interval[1] - WindowMargin, 0)
        end_line == method_loc_interval[2] + WindowMargin
        context_segment == context_window(content, method_loc_interval)
        match == extract_search_replace_block(edit_command)
    IN  IF ~match.found THEN Edited("EditCommandFormatError", content, 0)
        ELSE Edited("none",
                    JoinLines(Slice(content_lines, 0, start_line))
                        \o Replace(context_segment, match.search_text, match.replace_text)
                        \o JoinLines(Slice(content_lines, end_line, Len(content_lines))),
                    Count(match.replace_text, <<NL>>) - Count(match.search_text, <<NL>>))

apply_edit_commands_search_replace(edit_command, content, method_loc_interval) ==
    LET content_lines == splitlines(content)
        start_line == Max2(method_loc_interval[1] - WindowMargin, 0)
        end_line == method_loc_interval[2] + WindowMargin
        context_segment == context_window(content, method_loc_interval)
        match == extract_search_replace_block(edit_command)
    IN  IF ~match.found THEN Edited("EditCommandFormatError", content, 0)
        ELSE IF ~IsIn(match.search_text, context_segment)
        THEN Edited("EditCommandContentError", content, 0)
        ELSE Edited("none",
                    JoinLines(Slice(content_lines, 0, start_line))
                        \o Replace(context_segment, match.search_text, match.replace_text)
                        \o JoinLines(Slice(content_lines, end_line, Len(content_lines))),
                    Count(match.replace_text, <<NL>>) - Count(match.search_text, <<NL>>))

-----------------------------------------------------------------------------
(* One call of apply_edit_commands_search_replace on inputs of bounded size *)

\* A file of one-statement lines.
FileOf(statements) == [i \in 1..Len(statements) |-> <<statements[i]>>]

\* The text of a file: its lines, each ended by a line break.
TextOf(lines) == JoinLines(lines) \o <<NL>>

\* "p" is a System.out.println statement of the file, "q" one that an edit brings
\* in, "k" the package statement.
LongFile ==
    FileOf(<<"k", "a", "b", "e", "e", "e", "e", "p", "e",
             "e", "e", "e", "e", "a", "c", "b", "e">>)

EditFiles == {LongFile, FileOf(<<"a", "b", "c">>), FileOf(<<"a", "b", "b", "c">>)}

\* (method.line[0], method.line[1])
EditIntervals == {<<7, 8>>, <<2, 3>>}

SearchTexts == {<<"b">>, <<"a">>, <<"c">>, <<"a", NL, "b">>, <<"z">>, <<>>}

ReplaceTexts == {<<"b", NL, "d">>, <<"d">>, <<"b", NL, "q">>}

CommandShapes == {"wellformed", "no_separator", "no_tail", "plain"}

Command(shape, search, replace) ==
    [shape |-> shape, search |-> search, replace |-> replace]

\* The text of an edit command as the oracle writes it: in the SEARCH/REPLACE
\* format, or with the separator line, the closing marker or every marker missing.
Render(command) ==
    CASE command.shape = "wellformed" ->
             <<SearchMark, NL>> \o command.search \o <<NL, SepChar, SepChar, NL>>
                 \o command.replace \o <<NL, ReplaceMark>>
      [] command.shape = "no_separator" ->
             <<SearchMark, NL>> \o command.search \o <<NL>>
                 \o command.replace \o <<NL, ReplaceMark>>
      [] command.shape = "no_tail" ->
             <<SearchMark, NL>> \o command.search \o <<NL, SepChar, SepChar, NL>>
                 \o command.replace
      [] command.shape = "plain" -> command.replace

NotEdited == Edited("none", <<>>, 0)

EditStart ==
    /\ e_lines \in EditFiles
    /\ e_interval \in EditIntervals
    /\ e_command \in {Command(sh, s, r) :
                         sh \in CommandShapes, s \in SearchTexts, r \in ReplaceTexts}
    /\ e_result = NotEdited
    /\ e_file = Absent
    /\ epc = "ready"

\* edit_and_run, first statement: the edit is applied to the content read from the
\* .bak file.
ApplyEdit ==
    /\ epc = "ready"
    /\ e_result' = apply_edit_commands_search_replace(
                       Render(e_command), TextOf(e_lines), e_interval)
    /\ epc' = "applied"
    /\ UNCHANGED <<notEdit, e_lines, e_interval, e_command, e_file>>

-----------------------------------------------------------------------------
(* VerifyAgent.run_process: print debugging of one nominated method *)

\* Oracle calls modelled per run_process call, and run_process calls per method.
MaxVerifyTurns == 3

MaxVerifyRuns == 2

\* max_edit_times of the earlier VerifyAgent ("verify_agent copy.py"), the one bound
\* on edits the source holds; verify_agent.py has no bound on edits or retries.
max_edit_times == 3

PrintStmt == "p"

\* A print statement that an edit command brings in.
DebugPrintStmt == "q"

WriteStmt == "w"

PackageStmt == "k"

ImportStmt == "i"

\* The result of transform_print_stmt: the exception raised or the new content.
Transformed(raised, content) == [raised |-> raised, content |-> content]

\* content_lines.insert(i + 1, import_stmt) at the first line starting with "package ".
add_import(content_lines) ==
    LET at == {i \in 1..Len(content_lines) :
                  content_lines[i] # <<>> /\ Head(content_lines[i]) = PackageStmt}
    IN  IF at = {} THEN content_lines
        ELSE LET i == CHOOSE i \in at : \A j \in at : i <= j
             IN  SubSeq(content_lines, 1, i) \o <<<<ImportStmt>>>>
                 \o SubSeq(content_lines, i + 1, Len(content_lines))

\* transform_print_stmt: the print statements of the method's lines become writes to
\* the output file.
transform_print_stmt(content, file_loc_interval) ==
    LET lines == splitlines(content)
        context_segment ==
            <<NL>> \o JoinLines(Slice(lines, file_loc_interval[1], file_loc_interval[2]))
                \o <<NL>>
    IN  IF ~IsIn(<<PrintStmt>>, context_segment) /\ ~IsIn(<<DebugPrintStmt>>, context_segment)
        THEN Transformed("PrintStmtNotFoundError", content)
        ELSE Transformed("none",
                 JoinLines(add_import(splitlines(
                     JoinLines(Slice(lines, 0, file_loc_interval[1]))
                     \o Replace(Replace(context_segment, <<PrintStmt>>, <<WriteStmt>>),
                                <<DebugPrintStmt>>, <<WriteStmt>>)
                     \o JoinLines(Slice(lines, file_loc_interval[2], Len(lines)))))))

\* edit_and_run after the edit: the print statements of the lines
\* (method_loc_interval[0], method_loc_interval[1] + extra_lines) are transformed and
\* the result is written to the java file; an exception of either call leaves
\* edit_and_run before write_text.
TransformAndWrite ==
    /\ epc = "applied"
    /\ IF e_result.raised # "none"
       THEN epc' = "raised" /\ UNCHANGED e_file
       ELSE LET final_content ==
                    transform_print_stmt(
                        e_result.content,
                        <<e_interval[1], e_interval[2] + e_result.extra_lines>>)
            IN  IF final_content.raised # "none"
                THEN epc' = "raised" /\ UNCHANGED e_file
                ELSE /\ e_file' = Present(final_content.content)
                     /\ epc' = "written"
    /\ UNCHANGED <<notEdit, e_lines, e_interval, e_command, e_result>>

EditNext == ApplyEdit \/ TransformAndWrite

\* The method under verification: its file and (method.line[0], method.line[1]).
VerifyLines == LongFile

VerifyInterval == <<7, 8>>

VerifyCommands ==
    { Command("wellformed", <<"b">>, <<"b", NL, "d">>),
      Command("wellformed", <<"z">>, <<"d">>),
      Command("wellformed", <<"p">>, <<"e">>),
      Command("wellformed", <<"e">>, <<"e", NL, "q">>),
      Command("plain", <<>>, <<"d">>) }

NoCommand == Command("none", <<>>, <<>>)

\* What running the test in the playground comes to: the log of the prints, a
\* CompileError, or an empty stderr (console_err.splitlines()[0] raises IndexError).
TestOutcomes == {"log", "CompileError", "IndexError"}

\* What the oracle answers in the verdict loop.
VerdictAnswers == {"no_json_block", "not_json", "bad_category", "verdict"}

Message(role, content) == [role |-> role, content |-> content]

NoPlayground == [exists |-> FALSE, java |-> Absent, bak |-> Absent]

VerifyStart ==
    /\ vpc = "init"
    /\ ws = NoPlayground
    /\ v_transcript = <<>>
    /\ retry_msg_idx = {}
    /\ retry_round = FALSE
    /\ edit_count = 0
    /\ retry_count = 0
    /\ tests_run = 0
    /\ v_cmd = NoCommand
    /\ verr = "none"
    /\ v_turns = 0
    /\ v_runs = 0

\* VerifyAgent.run (refresh, create_process) and run_process up to the loop: the
\* checkout into the playground directory if it does not exist, the assertion that
\* the Java file exists, and the move of the Java file to its .bak.
EnterRunProcess(checked_out) ==
    /\ vpc \in {"init", "returned", "raised"}
    /\ v_runs < MaxVerifyRuns
    /\ v_runs' = v_runs + 1
    /\ v_transcript' = <<Message("user", "VERIFY_AGENT_USER_PROMPT")>>
    /\ retry_msg_idx' = {}
    /\ retry_round' = FALSE
    /\ edit_count' = 0
    /\ retry_count' = 0
    /\ v_cmd' = NoCommand
    /\ v_turns' = 0
    /\ LET after_checkout ==
               IF ws.exists THEN ws
               ELSE IF checked_out
               THEN [exists |-> TRUE, java |-> Present(TextOf(VerifyLines)), bak |-> Absent]
               ELSE NoPlayground
       IN  IF ~after_checkout.java.exists
           THEN /\ ws' = after_checkout
                /\ vpc' = "raised"
                /\ verr' = "AssertionError"
           ELSE /\ ws' = IF after_checkout.bak.exists THEN after_checkout
                         ELSE [after_checkout EXCEPT !.bak = after_checkout.java,
                                                     !.java = Absent]
                /\ vpc' = "oracle"
                /\ verr' = "none"
    /\ UNCHANGED <<notVerify, tests_run>>

\* The message indices labelled as retry messages at the top of a retry round.
RetryLabels ==
    IF retry_round
    THEN retry_msg_idx \cup {Len(v_transcript) - 2, Len(v_transcript) - 1}
    ELSE retry_msg_idx

\* The oracle answers with a java block: an edit command.
OracleEdits(command) ==
    /\ vpc = "oracle"
    /\ v_turns < MaxVerifyTurns
    /\ v_turns' = v_turns + 1
    /\ retry_msg_idx' = RetryLabels
    /\ v_transcript' = Append(v_transcript, Message("assistant", "edit"))
    /\ v_cmd' = command
    /\ vpc' = "edit"
    /\ UNCHANGED <<notVerify, ws, retry_round, edit_count, retry_count, tests_run,
                   verr, v_runs>>

\* The oracle answers without a java block: the debug report; the verdict is asked.
OracleReports ==
    /\ vpc = "oracle"
    /\ v_turns < MaxVerifyTurns
    /\ v_turns' = v_turns + 1
    /\ retry_msg_idx' = RetryLabels
    /\ v_transcript' = v_transcript \o <<Message("assistant", "report"),
                                         Message("user", "VERIFY_AGENT_RESULT_PROMPT")>>
    /\ vpc' = "verdict"
    /\ UNCHANGED <<notVerify, ws, retry_round, edit_count, retry_count, tests_run,
                   v_cmd, verr, v_runs>>

\* process.llm.call raises, in either loop.
VerifyOracleRaises ==
    /\ vpc \in {"oracle", "verdict"}
    /\ v_turns < MaxVerifyTurns
    /\ v_turns' = v_turns + 1
    /\ retry_msg_idx' = IF vpc = "oracle" THEN RetryLabels ELSE retry_msg_idx
    /\ vpc' = "raised"
    /\ verr' = "LLMError"
    /\ UNCHANGED <<notVerify, ws, v_transcript, retry_round, edit_count, retry_count,
                   tests_run, v_cmd, v_runs>>

\* The except branch of the edit loop for an exception with a message.
FeedBack(raised) ==
    /\ retry_count' = retry_count + 1
    /\ v_transcript' = Append(v_transcript, Message("user", raised))
    /\ retry_round' = TRUE
    /\ vpc' = "oracle"
    /\ UNCHANGED <<edit_count, verr>>

\* Mutant: the content the edits of a verification are applied to, read from the
\* Java file as the last edit left it.
read_content_of_java_file(workspace) ==
    IF workspace.java.exists THEN workspace.java.text ELSE workspace.bak.text

\* run_process: content = java_back_file.read_text(). The .bak file is written
\* nowhere after the move, so it holds at every edit what was read before the loop.
read_content(workspace) == workspace.bak.text

\* edit_and_run under the try of the edit loop: the edit is applied to the content
\* of the .bak file, the prints are transformed, the Java file is written and the
\* test is run.
EditAndRun(test_outcome) ==
    /\ vpc = "edit"
    /\ LET edited == apply_edit_commands_search_replace(
                         Render(v_cmd), read_content(ws), VerifyInterval)
           final == transform_print_stmt(
                        edited.content,
                        <<VerifyInterval[1], VerifyInterval[2] + edited.extra_lines>>)
       IN  IF edited.raised # "none"
           THEN FeedBack(edited.raised) /\ UNCHANGED <<ws, tests_run>>
           ELSE IF final.raised # "none"
           THEN FeedBack(final.raised) /\ UNCHANGED <<ws, tests_run>>
           ELSE /\ ws' = [ws EXCEPT !.java = Present(final.content)]
                /\ tests_run' = tests_run + 1
                /\ CASE test_outcome = "log" ->
                            /\ edit_count' = edit_count + 1
                            /\ v_transcript' = Append(v_transcript,
                                                      Message("user", "test_log"))
                            /\ retry_round' = FALSE
                            /\ vpc' = "oracle"
                            /\ UNCHANGED <<retry_count, verr>>
                     [] test_outcome = "CompileError" -> FeedBack("CompileError")
                     [] test_outcome = "IndexError" ->
                            /\ retry_count' = retry_count + 1
                            /\ vpc' = "raised"
                            /\ verr' = "AttributeError"
                            /\ UNCHANGED <<edit_count, v_transcript, retry_round>>
    /\ UNCHANGED <<notVerify, retry_msg_idx, v_cmd, v_turns, v_runs>>

\* One turn of the verdict loop; a valid verdict ends it and the playground is
\* removed.
VerdictTurn(answer) ==
    /\ vpc = "verdict"
    /\ v_turns < MaxVerifyTurns
    /\ v_turns' = v_turns + 1
    /\ CASE answer \in {"no_json_block", "bad_category"} ->
                /\ v_transcript' = v_transcript \o <<Message("assistant", answer),
                                                     Message("user", "try_again")>>
                /\ retry_count' = retry_count + 1
                /\ UNCHANGED <<vpc, verr, ws>>
         [] answer = "not_json" ->
                /\ v_transcript' = Append(v_transcript, Message("assistant", answer))
                /\ vpc' = "raised"
                /\ verr' = "JSONDecodeError"
                /\ UNCHANGED <<retry_count, ws>>
         [] answer = "verdict" ->
                /\ v_transcript' = Append(v_transcript, Message("assistant", answer))
                /\ ws' = NoPlayground
                /\ vpc' = "returned"
                /\ UNCHANGED <<retry_count, verr>>
    /\ UNCHANGED <<notVerify, retry_msg_idx, retry_round, edit_count, tests_run,
                   v_cmd, v_runs>>

VerifyNext ==
    \/ \E checked_out \in BOOLEAN : EnterRunProcess(checked_out)
    \/ \E command \in VerifyCommands : OracleEdits(command)
    \/ OracleReports
    \/ VerifyOracleRaises
    \/ \E test_outcome \in TestOutcomes : EditAndRun(test_outcome)
    \/ \E answer \in VerdictAnswers : VerdictTurn(answer)

-----------------------------------------------------------------------------
(* Tag (schema.py) and the MultiDiGraph the code graph is kept in *)

None == "None"

\* A Tag as create_tag builds it for an element of the file <rel_fname>.java in the
\* root of the source directory: the fields compared by the generated __eq__ (code,
\* fname and is_test are functions of the file and the lines and are left out).
\* pkg_name is kept as its segments between the ".", inner_class as its parts
\* between the "$".
Tag(rel_fname, line, name, kind, category) ==
    [rel_fname |-> rel_fname, line |-> line, name |-> name, kind |-> kind,
     category |-> category, pkg_name |-> <<>>, parent_class |-> None,
     interfaces |-> <<>>, outer_class |-> rel_fname, inner_class |-> <<>>,
     is_covered |-> FALSE]

\* Tag.__hash__
Tag_hash(tag) == <<tag.rel_fname, tag.line, tag.name, tag.kind, tag.category>>

\* Tag.__eq__ as @dataclass generates it: every field is compared.
Tag_eq(a, b) == a = b

\* Body applied to a value, which is computed once.
With(value, Body(_)) == CHOOSE result \in {Body(bound) : bound \in {value}} : TRUE

\* Left fold of a sequence.
RECURSIVE FoldLeft(_, _, _)
FoldLeft(Op(_, _), acc, s) ==
    IF s = <<>> THEN acc
    ELSE With(Op(acc, Head(s)), LAMBDA step :
         With(Tail(s), LAMBDA rest : FoldLeft(Op, step, rest)))

\* The first position of s that satisfies Test; 0 when there is none.
FirstIdx(s, Test(_)) ==
    LET found == {i \in 1..Len(s) : Test(s[i])}
    IN  IF found = {} THEN 0 ELSE CHOOSE i \in found : \A j \in found : i <= j

\* Looking an object up among the keys of a dict: the first key with the same hash
\* that is the same object or equal to it; 0 when there is none. Objects are
\* numbers, heap gives the fields an object has now.
key_lookup(keys, heap, o) ==
    LET hit == FirstIdx(keys, LAMBDA held :
                   /\ Tag_hash(heap[held]) = Tag_hash(heap[o])
                   /\ (held = o \/ Tag_eq(heap[held], heap[o])))
    IN  IF hit = 0 THEN 0 ELSE keys[hit]

\* The edge key "unique" of the dynamic call edges, and the absence of a key (the
\* keys networkx hands out are 0, 1, ...).
UniqueKey == -1

AutoKey == -2

EmptyGraph == [nodes |-> <<>>, edges |-> <<>>]

Edge(u, v, key, rel) == [u |-> u, v |-> v, key |-> key, rel |-> rel]

\* MultiDiGraph.add_node
add_node(G, heap, o) ==
    IF key_lookup(G.nodes, heap, o) # 0 THEN G
    ELSE [G EXCEPT !.nodes = Append(@, o)]

\* The node an object stands for in a graph it has been added to.
node_of(G, heap, o) == key_lookup(G.nodes, heap, o)

\* MultiDiGraph.new_edge_key: the number of edges from u to v, raised until unused.
RECURSIVE free_key(_, _)
free_key(used, k) == IF k \in used THEN free_key(used, k + 1) ELSE k

new_edge_key(G, u, v) ==
    LET between == {i \in 1..Len(G.edges) : G.edges[i].u = u /\ G.edges[i].v = v}
    IN  free_key({G.edges[i].key : i \in between}, Cardinality(between))

\* MultiDiGraph.add_edge(u, v, key=key, rel=rel); AutoKey stands for no key given.
add_edge(G, heap, u_obj, v_obj, key, rel) ==
    With(add_node(add_node(G, heap, u_obj), heap, v_obj), LAMBDA G2 :
    With(node_of(G2, heap, u_obj), LAMBDA u :
    With(node_of(G2, heap, v_obj), LAMBDA v :
    With(IF key = AutoKey THEN new_edge_key(G2, u, v) ELSE key, LAMBDA k :
    With(FirstIdx(G2.edges, LAMBDA present :
                      present.u = u /\ present.v = v /\ present.key = k), LAMBDA same :
        IF same = 0 THEN [G2 EXCEPT !.edges = Append(@, Edge(u, v, k, rel))]
        ELSE [G2 EXCEPT !.edges[same].rel = rel])))))

\* MultiDiGraph.has_edge(u, v, key=key)
has_edge(G, heap, u_obj, v_obj, key) ==
    LET u == node_of(G, heap, u_obj)
        v == node_of(G, heap, v_obj)
    IN  /\ u # 0 /\ v # 0
        /\ \E i \in 1..Len(G.edges) :
               G.edges[i].u = u /\ G.edges[i].v = v /\ G.edges[i].key = key

-----------------------------------------------------------------------------
(* CodeGraph: the tags of the parsed files and the static graph *)

\* A dict with tuple keys kept as the sequence of its items in insertion order;
\* assigning to a key that is present replaces the value where the key stands.
Item(key, value) == [key |-> key, value |-> value]

dict_set(items, key, value) ==
    LET at == FirstIdx(items, LAMBDA held_item : held_item.key = key)
    IN  IF at = 0 THEN Append(items, Item(key, value))
        ELSE [items EXCEPT ![at].value = value]

\* self.location after create_tag has seen the objects objs in order:
\* location[fname][lines] = tag.
location_of(objs, heap) ==
    FoldLeft(LAMBDA loc, parsed_tag :
                 dict_set(loc, <<heap[parsed_tag].rel_fname, heap[parsed_tag].line>>,
                          parsed_tag),
             <<>>, objs)

\* self.def_tags: the "def" objects with a name, in order.
def_tags_of(objs, heap, name) ==
    SelectSeq(objs, LAMBDA named : heap[named].kind = "def" /\ heap[named].name = name)

\* find_def_tag of create_static_graph: the first entry of the file's location map
\* whose lines contain the lines of ref and whose category is asked for; 0 for None.
find_def_tag(location, heap, ref, categories) ==
    LET hit == FirstIdx(location, LAMBDA entry :
                   /\ entry.key[1] = heap[ref].rel_fname
                   /\ entry.key[2][1] <= heap[ref].line[1]
                   /\ heap[ref].line[2] <= entry.key[2][2]
                   /\ (categories = {} \/ heap[entry.value].category \in categories))
    IN  IF hit = 0 THEN 0 ELSE location[hit].value

\* The objects of a category (tags_class, tags_function, ...), in order.
of_category(objs, heap, category) ==
    SelectSeq(objs, LAMBDA member : heap[member].category = category)

of_kind(objs, heap, kind) ==
    SelectSeq(objs, LAMBDA kinded : heap[kinded].kind = kind)

\* A graph under construction with the exception that stopped the construction.
Building(graph, raised) == [graph |-> graph, raised |-> raised]

ClassLike == {"class", "interface", "enum"}

\* The loops "Adding function-class edges" and "Adding field-class edges" for the
\* language java.
add_defines_edges(B, heap, location, members, rel) ==
    FoldLeft(LAMBDA sofar, member_tag :
                 IF sofar.raised # "none" THEN sofar
                 ELSE With(find_def_tag(location, heap, member_tag, ClassLike),
                           LAMBDA tgt_tag :
                               IF tgt_tag # 0
                               THEN Building(add_edge(sofar.graph, heap, tgt_tag,
                                                      member_tag, AutoKey, rel), "none")
                               ELSE Building(sofar.graph, "ValueError")),
             B, members)

\* The loop "Adding function call edges".
add_may_calls_edges(B, heap, location, objs) ==
    FoldLeft(LAMBDA called, ref_tag :
                 IF called.raised # "none" THEN called
                 ELSE With(find_def_tag(location, heap, ref_tag, {"function", "field"}),
                           LAMBDA src_tag :
                               IF src_tag = 0 THEN called
                               ELSE FoldLeft(LAMBDA calls_sofar, tgt_tag :
                                                 IF ~Tag_eq(heap[tgt_tag], heap[src_tag])
                                                 THEN Building(add_edge(calls_sofar.graph,
                                                          heap, src_tag, tgt_tag, AutoKey,
                                                          "may_calls"), "none")
                                                 ELSE calls_sofar,
                                             called,
                                             def_tags_of(objs, heap, heap[ref_tag].name))),
             B, of_kind(objs, heap, "ref"))

\* The loop "Adding inherits and implements edges".
add_inherits_edges(B, heap, objs) ==
    LET tags_class == of_category(objs, heap, "class")
        tags_interface == of_category(objs, heap, "interface")
        inherit(acc, tag) ==
            IF heap[tag].parent_class = None THEN acc
            ELSE FoldLeft(LAMBDA inh, parent_tag :
                              IF heap[parent_tag].name = heap[tag].parent_class
                              THEN Building(add_edge(inh.graph, heap, tag, parent_tag,
                                                     AutoKey, "inherits"), "none")
                              ELSE inh,
                          acc, tags_class)
        implement(acc, tag) ==
            FoldLeft(LAMBDA impl, interface :
                         FoldLeft(LAMBDA impl_in, interface_tag :
                                      IF heap[interface_tag].name = interface
                                      THEN Building(add_edge(impl_in.graph, heap, tag,
                                               interface_tag, AutoKey, "implements"),
                                               "none")
                                      ELSE impl_in,
                                  impl, tags_interface),
                     acc, heap[tag].interfaces)
    IN  IF B.raised # "none" THEN B
        ELSE FoldLeft(LAMBDA linked, class_tag :
                          With(inherit(linked, class_tag),
                               LAMBDA inherited : implement(inherited, class_tag)),
                      B, tags_class)

\* CodeGraph.create_static_graph on the empty graph, for the language java.
create_static_graph(heap, objs) ==
    With(location_of(objs, heap), LAMBDA location :
    With(FoldLeft(LAMBDA noded, node_tag : add_node(noded, heap, node_tag),
                  EmptyGraph, objs), LAMBDA nodes :
    With(add_defines_edges(Building(nodes, "none"), heap, location,
                           of_category(objs, heap, "function"), "defines_function"),
         LAMBDA functions :
    With(add_defines_edges(functions, heap, location,
                           of_category(objs, heap, "field"), "defines_field"),
         LAMBDA fields :
    With(add_may_calls_edges(fields, heap, location, objs), LAMBDA calls :
        add_inherits_edges(calls, heap, objs))))))

-----------------------------------------------------------------------------
(* CodeGraph: the dynamic call graph and the combined graph *)

\* CGMethodNode; class_name is given by its parts between the "$".
CGMethodNode(class_name, method_name, start_line, end_line) ==
    [class_name |-> class_name, method_name |-> method_name,
     start_line |-> start_line, end_line |-> end_line]

\* inst_graph.nodes and inst_graph.successors(node) of the DiGraph built from the
\* edge list inst: in the order of first appearance.
Dedup(s) ==
    FoldLeft(LAMBDA kept, item : IF item \in Range(kept) THEN kept ELSE Append(kept, item),
             <<>>, s)

inst_nodes(inst) ==
    Dedup(FoldLeft(LAMBDA ends, inst_edge : ends \o <<inst_edge[1], inst_edge[2]>>,
                   <<>>, inst))

successors(inst, node) ==
    Dedup(FoldLeft(LAMBDA succ, out_edge :
                       IF out_edge[1] = node THEN Append(succ, out_edge[2]) ELSE succ,
                   <<>>, inst))

\* dict.get on a dict kept as items; 0 for a missing key.
dict_get(items, key) ==
    LET at == FirstIdx(items, LAMBDA got_item : got_item.key = key)
    IN  IF at = 0 THEN 0 ELSE items[at].value

\* tag_map[f"{outer_class}.{method_name}"][tag.line] = tag over the function tags.
tag_map_of(objs, heap) ==
    FoldLeft(LAMBDA mapped, fn_tag :
                 dict_set(mapped, <<<<heap[fn_tag].rel_fname>>, heap[fn_tag].name,
                                    heap[fn_tag].line>>, fn_tag),
             <<>>, of_category(objs, heap, "function"))

\* The tags of tag_map[query_key] whose lines contain the lines of node.
founded_in(tag_map, class_name, node) ==
    LET at == SelectSeq(tag_map, LAMBDA line_entry :
                  /\ line_entry.key[1] = class_name
                  /\ line_entry.key[2] = node.method_name
                  /\ node.start_line >= line_entry.key[3][1]
                  /\ node.end_line <= line_entry.key[3][2])
    IN  [i \in 1..Len(at) |-> at[i].value]

\* match_tag, the search: the query keys of an inner class are tried from the
\* longest prefix of the class name to the shortest.
RECURSIVE founded_tags(_, _, _)
founded_tags(tag_map, node, last_idx) ==
    IF Len(node.class_name) = 1 THEN founded_in(tag_map, node.class_name, node)
    ELSE IF last_idx = 0 THEN <<>>
    ELSE founded_in(tag_map, SubSeq(node.class_name, 1, last_idx), node)
         \o founded_tags(tag_map, node, last_idx - 1)

\* sorted(founded_tags, key=lambda x: x.line[1] - x.line[0])[0]
smallest_tag(founded, heap) ==
    LET size(o) == heap[o].line[2] - heap[o].line[1]
    IN  founded[FirstIdx(founded, LAMBDA small :
                    \A q \in Range(founded) : size(small) <= size(q))]

\* The matching so far: the fields of the objects and node_to_tag.
Matching(heap, node_to_tag) == [heap |-> heap, node_to_tag |-> node_to_tag]

\* match_tag and the loop "Matching dynamic call graph": the matched tag gets the
\* classes of the node and is marked as covered.
match_tag(M, tag_map, node) ==
    With(founded_tags(tag_map, node, Len(node.class_name) - 1), LAMBDA founded :
        IF founded = <<>> THEN M
        ELSE With(smallest_tag(founded, M.heap), LAMBDA founded_tag :
                 Matching([M.heap EXCEPT
                              ![founded_tag].outer_class = node.class_name[1],
                              ![founded_tag].inner_class = Tail(node.class_name),
                              ![founded_tag].is_covered = TRUE],
                          dict_set(M.node_to_tag, node, founded_tag))))

\* get_all_matched_successors: the matched tags reached through unmatched nodes;
\* visited_fathers is shared by the whole descent.
Visit(matched, visited) == [matched |-> matched, visited |-> visited]

RECURSIVE get_all_matched_successors(_, _, _, _)
get_all_matched_successors(inst, node_to_tag, node, visited_fathers) ==
    FoldLeft(LAMBDA descent, successor :
                 IF successor \in descent.visited THEN descent
                 ELSE IF dict_get(node_to_tag, successor) # 0
                 THEN Visit(Append(descent.matched, dict_get(node_to_tag, successor)),
                            descent.visited)
                 ELSE With(get_all_matched_successors(
                                inst, node_to_tag, successor, descent.visited),
                           LAMBDA below :
                               Visit(descent.matched \o below.matched, below.visited)),
             Visit(<<>>, visited_fathers \cup {node}), successors(inst, node))

\* add_edge(u, v, key="unique", rel="calls") unless the edge is there.
add_calls_edge(G, heap, u, v) ==
    IF has_edge(G, heap, u, v, UniqueKey) THEN G
    ELSE add_edge(G, heap, u, v, UniqueKey, "calls")

\* CodeGraph.create_dynamic_graph: the graph and the fields of the objects after it.
Built(graph, heap, raised) == [graph |-> graph, heap |-> heap, raised |-> raised]

\* The loop "Matching dynamic call graph" over inst_graph.nodes.
match_nodes(heap, inst, objs) ==
    With(tag_map_of(objs, heap), LAMBDA tag_map :
        FoldLeft(LAMBDA dyn, cg_node : match_tag(dyn, tag_map, cg_node),
                 Matching(heap, <<>>), inst_nodes(inst)))

create_dynamic_graph(repo_graph, heap, inst, objs) ==
    With(match_nodes(heap, inst, objs), LAMBDA M :
        Built(FoldLeft(LAMBDA dyn, call :
                  With(dict_get(M.node_to_tag, call[1]), LAMBDA src_tag :
                  With(dict_get(M.node_to_tag, call[2]), LAMBDA tgt_tag :
                      IF src_tag # 0 /\ tgt_tag # 0
                      THEN add_calls_edge(dyn, M.heap, src_tag, tgt_tag)
                      ELSE IF src_tag # 0
                      THEN FoldLeft(LAMBDA via, reached :
                                        add_calls_edge(via, M.heap, src_tag, reached),
                                    dyn,
                                    get_all_matched_successors(
                                        inst, M.node_to_tag, call[1], {}).matched)
                      ELSE dyn)),
                  repo_graph, inst),
              M.heap, "none"))

\* CodeGraph.create_repo_graph(inst_graph, tags)
create_repo_graph(heap, inst, objs) ==
    With(create_static_graph(heap, objs), LAMBDA static :
        IF static.raised # "none" THEN Built(EmptyGraph, heap, static.raised)
        ELSE create_dynamic_graph(static.graph, heap, inst, objs))

\* nx.compose_all(all_graphs): the nodes and the keyed edges of every graph, added
\* to a new graph.
compose_all(graphs, heap) ==
    FoldLeft(LAMBDA R, G :
                 FoldLeft(LAMBDA R2, edge :
                              add_edge(R2, heap, edge.u, edge.v, edge.key, edge.rel),
                          FoldLeft(LAMBDA R1, node : add_node(R1, heap, node), R, G.nodes),
                          G.edges),
             EmptyGraph, graphs)

-----------------------------------------------------------------------------
(* create_repo_graph (module level): one graph per failing test, then combined *)

\* The failing test cases of the bug.
NumTestCases == 2

\* The elements of A.java, in source order: the class, its methods f, m (two
\* overloads declared on the same line) and g, the call of f in g, the field x, and
\* the method h declared outside the class.
TagUniverse ==
    << Tag("A", <<1, 9>>, "A", "def", "class"),
       Tag("A", <<2, 3>>, "f", "def", "function"),
       Tag("A", <<4, 4>>, "m", "def", "function"),
       Tag("A", <<4, 4>>, "m", "def", "function"),
       Tag("A", <<5, 6>>, "g", "def", "function"),
       Tag("A", <<5, 5>>, "f", "ref", None),
       Tag("A", <<7, 7>>, "x", "def", "field"),
       Tag("A", <<11, 12>>, "h", "def", "function") >>

\* The tags get_file_tags returns for a version of the file: the class and any of
\* the other elements.
TagLists ==
    {LET at == SelectSeq([i \in 1..Len(TagUniverse) |-> i], LAMBDA u_idx : u_idx \in keep)
     IN  [i \in 1..Len(at) |-> TagUniverse[at[i]]] :
        keep \in {k \in SUBSET (1..Len(TagUniverse)) : 1 \in k}}

\* The call graphs the Java agent records for a test: nothing, f calling g, g
\* calling m, and f calling g through a synthetic method of the inner class A$1.
InstGraphs ==
    LET Nf == CGMethodNode(<<"A">>, "f", 2, 3)
        Ng == CGMethodNode(<<"A">>, "g", 5, 6)
        Nm == CGMethodNode(<<"A">>, "m", 4, 4)
        Nsynthetic == CGMethodNode(<<"A", "1">>, "access", 0, 0)
    IN  { <<>>,
          << <<Nf, Ng>> >>,
          << <<Ng, Nm>> >>,
          << <<Nf, Nsynthetic>>, <<Nsynthetic, Ng>> >> }

\* The object parsed as the i-th tag for the graph of test case t.
Obj(t, i) == t * 10 + i

GraphStart ==
    /\ src_tags \in TagLists
    /\ tag_objs = <<>>
    /\ all_graphs = <<>>
    /\ combined_graph = EmptyGraph
    /\ gpc = "building"

\* One iteration of the loop over the test cases: the files are parsed, the graph
\* of the test case is built by get_code_graph and appended to all_graphs.
BuildTestGraph(inst) ==
    /\ gpc = "building"
    /\ Len(all_graphs) < NumTestCases
    /\ LET t == Len(all_graphs) + 1
           objs == [i \in 1..Len(src_tags) |-> Obj(t, i)]
           parsed == [o \in DOMAIN tag_objs \cup Range(objs) |->
                         IF o \in DOMAIN tag_objs THEN tag_objs[o] ELSE src_tags[o - Obj(t, 0)]]
       IN  \E G \in {With(parsed, LAMBDA heap_now :
                          With(objs, LAMBDA tags : create_repo_graph(heap_now, inst, tags)))} :
               /\ tag_objs' = G.heap
               /\ IF G.raised # "none"
                  THEN gpc' = "raised" /\ UNCHANGED all_graphs
                  ELSE all_graphs' = Append(all_graphs, G.graph) /\ UNCHANGED gpc
    /\ UNCHANGED <<notGraph, src_tags, combined_graph>>

\* After the loop: combined_graph = nx.compose_all(all_graphs).
ComposeAll ==
    /\ gpc = "building"
    /\ Len(all_graphs) = NumTestCases
    /\ combined_graph' = compose_all(all_graphs, tag_objs)
    /\ gpc' = "combined"
    /\ UNCHANGED <<notGraph, src_tags, tag_objs, all_graphs>>

GraphNext ==
    \/ \E inst \in InstGraphs : BuildTestGraph(inst)
    \/ ComposeAll

-----------------------------------------------------------------------------
(* Method IDs (schema.py) and the maps of RepoSearcher *)

\* pkg_name and inner_class as the strings the Tag holds.
pkg_str(tag) == Join(".", tag.pkg_name)

inner_str(tag) == Join("$", tag.inner_class)

\* "#{line[0]}-{line[1]}"
line_suffix(tag) == <<"#">> \o str(tag.line[1]) \o <<"-">> \o str(tag.line[2])

\* Tag.method_id without the replace of "$" in inner_class.
method_id_unreplaced(tag) ==
    IF inner_str(tag) # <<>>
    THEN pkg_str(tag) \o <<".", tag.outer_class, ".">> \o inner_str(tag)
             \o <<".", tag.name>> \o line_suffix(tag)
    ELSE pkg_str(tag) \o <<".", tag.outer_class, ".", tag.name>> \o line_suffix(tag)

\* Tag.method_id of a function Tag.
method_id(tag) ==
    IF inner_str(tag) # <<>>
    THEN pkg_str(tag) \o <<".", tag.outer_class, ".">>
             \o Replace(inner_str(tag), <<"$">>, <<".">>)
             \o <<".", tag.name>> \o line_suffix(tag)
    ELSE pkg_str(tag) \o <<".", tag.outer_class, ".", tag.name>> \o line_suffix(tag)

\* Tag.method_pos of a function Tag.
method_pos(tag) ==
    IF inner_str(tag) # <<>>
    THEN <<".">> \o Replace(inner_str(tag), <<"$">>, <<".">>)
             \o <<".", tag.name>> \o line_suffix(tag)
    ELSE <<".", tag.name>> \o line_suffix(tag)

\* The function nodes of a graph, in the order of graph.nodes.
function_nodes(G, heap) ==
    SelectSeq(G.nodes, LAMBDA graph_node : heap[graph_node].category = "function")

\* RepoSearcher.__init__: method_id_map[method_node.method_id] = method_node.
method_id_map_of(G, heap) ==
    FoldLeft(LAMBDA id_map, method_node :
                 dict_set(id_map, method_id(heap[method_node]), method_node),
             <<>>, function_nodes(G, heap))

\* RepoSearcher.get_method: the node, or 0 for None.
get_method(id_map, id) == dict_get(id_map, id)

-----------------------------------------------------------------------------
(* RepoSearcher and NewRepoSearcher (graph_searcher.py) *)

\* A function Tag as create_tag and match_tag leave it: pkg_name and outer_class
\* come from the path of the file, inner_class is filled when the Tag is covered.
MethodTag(pkg_name, outer_class, inner_class, name, line, is_covered) ==
    [Tag(pkg_name \o <<outer_class>>, line, name, "def", "function") EXCEPT
        !.pkg_name = pkg_name, !.outer_class = outer_class,
        !.inner_class = inner_class, !.is_covered = is_covered]

\* text.split(sep) for a separator of one character.
split(text, sep) ==
    FoldLeft(LAMBDA parts, ch :
                 IF ch = sep THEN Append(parts, <<>>)
                 ELSE [parts EXCEPT ![Len(parts)] = Append(@, ch)],
             << <<>> >>, text)

\* sep.join(texts) over texts.
JoinText(sep, texts) ==
    FoldLeft(LAMBDA joined, text : joined \o text, <<>>,
             [i \in 1..Len(texts) |-> IF i = 1 THEN texts[i] ELSE sep \o texts[i]])

\* text.endswith(suffix)
endswith(text, suffix) ==
    /\ Len(suffix) <= Len(text)
    /\ SubSeq(text, Len(text) - Len(suffix) + 1, Len(text)) = suffix

\* method_id.split("#")[0].split(".")
name_strs(id) == split(split(id, "#")[1], ".")

\* RepoSearcher.get_possible_method_ids: false_id.split("#")[0].split(".")[-1]
false_method_name(false_id) == name_strs(false_id)[Len(name_strs(false_id))]

\* RepoSearcher.__init__: the names f"{pkg_name}.{class_name}" a method is filed
\* under, one for every prefix of [outer_class] + inner_class.split("$").
class_full_names(tag) ==
    LET inner_class_names == IF inner_str(tag) # <<>> THEN split(inner_str(tag), "$") ELSE <<>>
        class_names == << <<tag.outer_class>> >> \o inner_class_names
    IN  [i \in 1..Len(class_names) |->
            pkg_str(tag) \o <<".">> \o JoinText(<<".">>, SubSeq(class_names, 1, i))]

\* dict[key].append(value), with the KeyError branch that opens the list.
dict_append(items, key, value) ==
    LET at == FirstIdx(items, LAMBDA listed : listed.key = key)
    IN  IF at = 0 THEN Append(items, Item(key, <<value>>))
        ELSE [items EXCEPT ![at].value = Append(@, value)]

dict_keys(items) == [i \in 1..Len(items) |-> items[i].key]

\* key in dict
dict_has(items, key) == FirstIdx(items, LAMBDA held : held.key = key) # 0

\* RepoSearcher.__init__ over the function nodes of the graph.
method_dict_of(nodes, covered_only) ==
    FoldLeft(LAMBDA filed, method_node :
                 IF covered_only /\ ~method_node.is_covered THEN filed
                 ELSE FoldLeft(LAMBDA under, class_full_name :
                                   dict_append(under, class_full_name, method_node),
                               filed, class_full_names(method_node)),
             <<>>, nodes)

id_map_of(nodes) ==
    FoldLeft(LAMBDA id_map, method_node : dict_set(id_map, method_id(method_node), method_node),
             <<>>, nodes)

RepoSearcher(nodes) ==
    [nodes |-> nodes,
     method_dict |-> method_dict_of(nodes, FALSE),
     covered_method_dict |-> method_dict_of(nodes, TRUE),
     method_id_map |-> id_map_of(nodes)]

NoSearcher == [nodes |-> <<>>, method_dict |-> <<>>, covered_method_dict |-> <<>>,
               method_id_map |-> <<>>]

\* The hash seeds of the interpreter: the order in which a set of strings is
\* listed is fixed within a process and differs between processes.
HashSeeds == {"seed_a", "seed_b"}

Reverse(s) == [i \in 1..Len(s) |-> s[Len(s) + 1 - i]]

\* list(set(ids))
list_set(ids, seed) == IF seed = "seed_a" THEN Dedup(ids) ELSE Reverse(Dedup(ids))

\* SequenceMatcher.find_longest_match(0, len(a), 0, len(b)): a longest common
\* block <<i, j, k>>; of those the one earliest in a, then earliest in b.
find_longest_match(a, b) ==
    LET blocks == {blk \in (1..Len(a)) \X (1..Len(b)) \X (1..Min2(Len(a), Len(b))) :
                      /\ blk[1] + blk[3] - 1 <= Len(a)
                      /\ blk[2] + blk[3] - 1 <= Len(b)
                      /\ SubSeq(a, blk[1], blk[1] + blk[3] - 1)
                             = SubSeq(b, blk[2], blk[2] + blk[3] - 1)}
        before(x, y) == \/ x[3] > y[3]
                        \/ x[3] = y[3] /\ x[1] < y[1]
                        \/ x[3] = y[3] /\ x[1] = y[1] /\ x[2] <= y[2]
    IN  With(blocks, LAMBDA common :
            IF common = {} THEN <<0, 0, 0>>
            ELSE CHOOSE blk \in common : \A other \in common : before(blk, other))

\* The sum of the sizes of SequenceMatcher.get_matching_blocks().
RECURSIVE matching_size(_, _)
matching_size(a, b) ==
    With(find_longest_match(a, b), LAMBDA blk :
        IF blk[3] = 0 THEN 0
        ELSE blk[3]
             + matching_size(SubSeq(a, 1, blk[1] - 1), SubSeq(b, 1, blk[2] - 1))
             + matching_size(SubSeq(a, blk[1] + blk[3], Len(a)),
                             SubSeq(b, blk[2] + blk[3], Len(b))))

\* SequenceMatcher(None, a, b).ratio() = 2.0 * matches / (len(a) + len(b)), kept
\* as the fraction <<numerator, denominator>>.
ratio(a, b) == <<2 * matching_size(a, b), Len(a) + Len(b)>>

compute_similarity(method_id_1, method_id_2) ==
    ratio(name_strs(method_id_1), name_strs(method_id_2))

\* x >= y for two ratios.
ratio_geq(x, y) == x[1] * y[2] >= y[1] * x[2]

\* sorted(similarities, key=lambda t: t[0], reverse=True): stable, so pairs of
\* equal similarity keep the order they had.
sorted_reverse(similarities) ==
    FoldLeft(LAMBDA ranked, pair :
                 LET ahead == Cardinality({i \in 1..Len(ranked) :
                                              ratio_geq(ranked[i][1], pair[1])})
                 IN  SubSeq(ranked, 1, ahead) \o <<pair>>
                     \o SubSeq(ranked, ahead + 1, Len(ranked)),
             <<>>, similarities)

num_max_candidates == 5

\* get_similar_candidates of RepoSearcher and of NewRepoSearcher.
get_similar_candidates(false_method_id, possible_method_ids) ==
    LET similarities == [i \in 1..Len(possible_method_ids) |->
                            <<compute_similarity(false_method_id, possible_method_ids[i]),
                              possible_method_ids[i]>>]
    IN  With(sorted_reverse(similarities), LAMBDA ranked :
            Slice([i \in 1..Len(ranked) |-> ranked[i][2]], 0, num_max_candidates))

\* RepoSearcher.get_possible_method_ids without the test of is_covered.
get_possible_method_ids_of_any(searcher, false_id, seed) ==
    list_set(FoldLeft(LAMBDA possible, method_node :
                          IF <<method_node.name>> = false_method_name(false_id)
                          THEN Append(possible, method_id(method_node)) ELSE possible,
                      <<>>, searcher.nodes),
             seed)

\* RepoSearcher.get_possible_method_ids
get_possible_method_ids(searcher, false_id, seed) ==
    list_set(FoldLeft(LAMBDA possible, method_node :
                          IF method_node.is_covered
                             /\ <<method_node.name>> = false_method_name(false_id)
                          THEN Append(possible, method_id(method_node)) ELSE possible,
                      <<>>, searcher.nodes),
             seed)

\* What a call of the searcher comes to: the text it returns, in parts, or the
\* exception that leaves it.
Answer(kind, ids, methods, fuzzy) ==
    [kind |-> kind, ids |-> ids, methods |-> methods, fuzzy |-> fuzzy]

NoAnswer == Answer("none", <<>>, <<>>, FALSE)

\* RepoSearcher.get_method_code_for_id
get_method_code_for_id(searcher, id, seed) ==
    IF dict_has(searcher.method_id_map, id)
    THEN Answer("code", <<id>>, <<dict_get(searcher.method_id_map, id)>>, FALSE)
    ELSE With(get_possible_method_ids(searcher, id, seed), LAMBDA possible_method_ids :
             IF possible_method_ids = <<>>
             THEN Answer("MethodIDNotFoundError.message", <<>>, <<>>, FALSE)
             ELSE Answer("suggestions", get_similar_candidates(id, possible_method_ids),
                         <<>>, FALSE))

\* get_method_dict: the method_pos of the methods, grouped by f"{pkg_name}.{outer_class}".
get_method_dict(methods) ==
    FoldLeft(LAMBDA result, method :
                 dict_append(result, pkg_str(method) \o <<".", method.outer_class>>,
                             method_pos(method)),
             <<>>, methods)

covered_of(methods) == SelectSeq(methods, LAMBDA listed_method : listed_method.is_covered)

\* RepoSearcher.get_covered_method_ids_for_class: the exact key or the message
\* of ClassNotFoundError.
get_covered_method_ids_for_class(searcher, class_name) ==
    IF dict_has(searcher.method_dict, class_name)
    THEN With(covered_of(dict_get(searcher.method_dict, class_name)), LAMBDA covered_methods :
             Answer("method_dict", get_method_dict(covered_methods), covered_methods, FALSE))
    ELSE Answer("ClassNotFoundError.message", <<>>, <<>>, FALSE)

\* NewRepoSearcher.get_possible_methods; <<>> stands for None and for the empty
\* list, which the callers do not tell apart. A method_name of <<>> is no filter.
get_possible_methods(searcher, class_name, method_name, covered_only) ==
    LET possible_classes == SelectSeq(dict_keys(searcher.method_dict),
                                      LAMBDA c : endswith(c, class_name))
    IN  Dedup(FoldLeft(LAMBDA possible_methods, c :
                           possible_methods \o
                           SelectSeq(dict_get(searcher.method_dict, c), LAMBDA class_method :
                               /\ covered_only => class_method.is_covered
                               /\ method_name # <<>> => <<class_method.name>> = method_name),
                       <<>>, possible_classes))

\* NewRepoSearcher.get_covered_method_ids_for_class with the fuzzy match alone.
new_get_covered_method_ids_always_fuzzy(searcher, class_name) ==
    With(get_possible_methods(searcher, class_name, <<>>, TRUE), LAMBDA possible_methods :
        IF possible_methods = <<>>
        THEN Answer("ClassNotFoundError.message", <<>>, <<>>, TRUE)
        ELSE Answer("method_dict", get_method_dict(possible_methods), possible_methods, TRUE))

\* NewRepoSearcher.get_covered_method_ids_for_class: precise match, else fuzzy match.
new_get_covered_method_ids_for_class(searcher, class_name) ==
    IF dict_has(searcher.method_dict, class_name)
    THEN With(covered_of(dict_get(searcher.method_dict, class_name)), LAMBDA covered_methods :
             Answer("method_dict", get_method_dict(covered_methods), covered_methods, FALSE))
    ELSE With(get_possible_methods(searcher, class_name, <<>>, TRUE), LAMBDA possible_methods :
             IF possible_methods = <<>>
             THEN Answer("ClassNotFoundError.message", <<>>, <<>>, TRUE)
             ELSE Answer("method_dict", get_method_dict(possible_methods), possible_methods,
                         TRUE))

\* NewRepoSearcher.get_possible_method_ids([false_id], covered_only=True), for a
\* false_id with a "." in it.
new_get_possible_method_ids(searcher, false_id, seed) ==
    LET dotted == split(false_id, ".")
        class_name == dotted[Len(dotted) - 1]
        method_name == split(dotted[Len(dotted)], "#")[1]
    IN  With(get_possible_methods(searcher, class_name, method_name, TRUE),
             LAMBDA all_possible_methods :
                 list_set([i \in 1..Len(all_possible_methods) |->
                              method_id(all_possible_methods[i])], seed))

\* NewRepoSearcher.get_method_code_for_id: no handler stands around the lookup.
new_get_method_code_for_id(searcher, id, seed) ==
    IF dict_has(searcher.method_id_map, id)
    THEN Answer("code", <<id>>, <<dict_get(searcher.method_id_map, id)>>, FALSE)
    ELSE IF Len(split(id, ".")) < 2
    THEN Answer("raised IndexError", <<>>, <<>>, FALSE)
    ELSE With(new_get_possible_method_ids(searcher, id, seed), LAMBDA possible_method_ids :
             IF possible_method_ids = <<>>
             THEN Answer("raised MethodIDNotFoundError", <<>>, <<>>, FALSE)
             ELSE Answer("suggestions", get_similar_candidates(id, possible_method_ids),
                         <<>>, FALSE))

\* ---- inputs ----

\* The function elements whose Method IDs are rendered: packages of no, one and
\* two segments, a class named as a package segment is, inner-class chains, a
\* constructor (named as its class) and line numbers of one to three digits.
MethodTags ==
    {MethodTag(pkg_name, outer_class, inner_class, name, line, is_covered) :
        pkg_name \in {<<>>, <<"p">>, <<"p", "q">>},
        outer_class \in {"A", "q"},
        inner_class \in {<<>>, <<"A">>, <<"B", "1">>},
        name \in {"m", "A"},
        line \in {<<4, 4>>, <<98, 102>>},
        is_covered \in {TRUE}}
    \cup
    {MethodTag(pkg_name, outer_class, <<>>, name, line, FALSE) :
        pkg_name \in {<<>>, <<"p">>, <<"p", "q">>},
        outer_class \in {"A", "q"},
        name \in {"m", "A"},
        line \in {<<4, 4>>, <<98, 102>>}}

\* The function nodes of the graphs the searcher is built from.
SearchGraphs ==
    LET covered(pkg_name, outer_class, inner_class, name, first) ==
            MethodTag(pkg_name, outer_class, inner_class, name, <<first, first + 1>>, TRUE)
        uncovered(pkg_name, outer_class, name, first) ==
            MethodTag(pkg_name, outer_class, <<>>, name, <<first, first + 1>>, FALSE)
    IN  { <<>>,
          \* two overloads of p.A.m, p.B.m, and methods no test runs
          << covered(<<"p">>, "A", <<>>, "m", 4), covered(<<"p">>, "A", <<>>, "m", 9),
             covered(<<"p">>, "B", <<>>, "m", 4), uncovered(<<"p">>, "A", "n", 20),
             uncovered(<<"p">>, "C", "m", 4) >>,
          \* six covered methods m
          << covered(<<"p">>, "A", <<>>, "m", 4), covered(<<"p">>, "B", <<>>, "m", 4),
             covered(<<"p">>, "C", <<>>, "m", 4), covered(<<"q">>, "A", <<>>, "m", 4),
             covered(<<"q">>, "B", <<>>, "m", 4), covered(<<"q">>, "C", <<>>, "m", 4) >>,
          \* A in the default package, in p and in q.p
          << covered(<<>>, "A", <<>>, "m", 4), covered(<<"p">>, "A", <<>>, "m", 4),
             covered(<<"q", "p">>, "A", <<>>, "n", 4), uncovered(<<"p">>, "A", "n", 9) >>,
          \* methods of the inner classes A$B and A$B$1
          << covered(<<"p">>, "A", <<"B">>, "m", 4), covered(<<"p">>, "A", <<"B", "1">>, "m", 9),
             covered(<<"p">>, "B", <<>>, "n", 4), uncovered(<<"p">>, "A", "m", 20) >>,
          \* no method named m is covered
          << uncovered(<<"p">>, "A", "m", 4), covered(<<"p">>, "A", <<>>, "n", 9) >> }

\* The method IDs the oracle asks for.
FalseIds ==
    { <<"m">>, <<"p", ".", "A", ".", "m">>, <<"p", ".", "A", ".", "m", "#", "1", "-", "2">>,
      <<"q", ".", "m">>, <<"p", ".", "A", ".", "x">>, <<"A", ".", "B", ".", "m">> }

\* The class names the oracle asks for.
ClassNames ==
    { <<"A">>, <<".", "A">>, <<"p", ".", "A">>, <<"p", ".", "A", ".", "B">>, <<"p", ".", "D">> }

Call(op, arg) == [op |-> op, arg |-> arg]

NoCall == Call("none", <<>>)

SearchIdle ==
    /\ s_nodes = <<>>
    /\ repo_searcher = NoSearcher
    /\ hash_seed = "seed_a"
    /\ s_call = NoCall
    /\ s_answer = NoAnswer
    /\ s_prev = [call |-> NoCall, answer |-> NoAnswer]

\* ---- the Method IDs of function elements ----

IdsStart ==
    /\ s_nodes \in {<<one, other>> : one \in MethodTags, other \in MethodTags}
    /\ repo_searcher = NoSearcher
    /\ hash_seed = "seed_a"
    /\ s_call = NoCall
    /\ s_answer = NoAnswer
    /\ s_prev = [call |-> NoCall, answer |-> NoAnswer]

\* tag.method_id of each element.
RenderMethodIds ==
    /\ s_call = NoCall
    /\ s_call' = Call("method_id", <<>>)
    /\ s_answer' = Answer("method_id", [i \in 1..Len(s_nodes) |-> method_id(s_nodes[i])],
                          s_nodes, FALSE)
    /\ UNCHANGED <<notSearch, s_nodes, repo_searcher, hash_seed, s_prev>>

IdsNext == RenderMethodIds

\* ---- the queries of the repo_searcher ----

SearchStart ==
    /\ s_nodes \in SearchGraphs
    /\ repo_searcher = NoSearcher
    /\ hash_seed \in HashSeeds
    /\ s_call = NoCall
    /\ s_answer = NoAnswer
    /\ s_prev = [call |-> NoCall, answer |-> NoAnswer]

\* searcher = RepoSearcher(graph)
BuildSearcher ==
    /\ s_call = NoCall
    /\ s_call' = Call("__init__", <<>>)
    /\ repo_searcher' = RepoSearcher(s_nodes)
    /\ UNCHANGED <<notSearch, s_nodes, hash_seed, s_answer, s_prev>>

SearcherBuilt == s_call # NoCall

GetMethodCodeForId(id) ==
    /\ SearcherBuilt
    /\ s_call' = Call("get_method_code_for_id", id)
    /\ s_answer' = get_method_code_for_id(repo_searcher, id, hash_seed)
    /\ s_prev' = IF s_call.op = "get_method_code_for_id"
                 THEN [call |-> s_call, answer |-> s_answer] ELSE s_prev
    /\ UNCHANGED <<notSearch, s_nodes, repo_searcher, hash_seed>>

NewGetMethodCodeForId(id) ==
    /\ SearcherBuilt
    /\ s_call' = Call("NewRepoSearcher.get_method_code_for_id", id)
    /\ s_answer' = new_get_method_code_for_id(repo_searcher, id, hash_seed)
    /\ UNCHANGED <<notSearch, s_nodes, repo_searcher, hash_seed, s_prev>>

GetCoveredMethodIdsForClass(class_name) ==
    /\ SearcherBuilt
    /\ s_call' = Call("get_covered_method_ids_for_class", class_name)
    /\ s_answer' = get_covered_method_ids_for_class(repo_searcher, class_name)
    /\ UNCHANGED <<notSearch, s_nodes, repo_searcher, hash_seed, s_prev>>

NewGetCoveredMethodIdsForClass(class_name) ==
    /\ SearcherBuilt
    /\ s_call' = Call("NewRepoSearcher.get_covered_method_ids_for_class", class_name)
    /\ s_answer' = new_get_covered_method_ids_for_class(repo_searcher, class_name)
    /\ UNCHANGED <<notSearch, s_nodes, repo_searcher, hash_seed, s_prev>>

\* The program is run again on the same bug: a new interpreter with another hash
\* seed builds the repo_searcher from the same graph.
RunAgain ==
    /\ SearcherBuilt
    /\ \E seed \in HashSeeds \ {hash_seed} : hash_seed' = seed
    /\ repo_searcher' = RepoSearcher(s_nodes)
    /\ UNCHANGED <<notSearch, s_nodes, s_call, s_answer, s_prev>>

SearchNext ==
    \/ BuildSearcher
    \/ \E id \in FalseIds \cup {method_id(s_nodes[i]) : i \in 1..Min2(1, Len(s_nodes))} :
           \/ GetMethodCodeForId(id)
           \/ NewGetMethodCodeForId(id)
    \/ \E class_name \in ClassNames :
           \/ GetCoveredMethodIdsForClass(class_name)
           \/ NewGetCoveredMethodIdsForClass(class_name)
    \/ RunAgain

-----------------------------------------------------------------------------
(* DebugAgent.run_multiprocess and run_singleprocess (debug_agent.py) *)

NumDebugCases == 4

MaxProcesses == 3

DebugCases == 1..NumDebugCases

\* What debug_process of a test case comes to.
ProcessOutcomes == {"returned", "raised"}

PoolStart ==
    /\ num_process \in 1..MaxProcesses
    /\ case_status = [i \in DebugCases |-> "created"]
    /\ da_results = <<>>
    /\ da_pc = "run"

\* DebugAgent.run: num_process > 1 takes run_multiprocess, which hands every
\* debug state to the pool with apply_async.
SubmitAll ==
    /\ da_pc = "run"
    /\ num_process > 1
    /\ case_status' = [i \in DebugCases |-> "queued"]
    /\ da_pc' = "pool"
    /\ UNCHANGED <<notPool, num_process, da_results>>

\* A worker of the pool takes the next task: at most num_process run at a time.
WorkerStarts(i) ==
    /\ da_pc = "pool"
    /\ case_status[i] = "queued"
    /\ \A earlier \in 1..(i - 1) : case_status[earlier] # "queued"
    /\ Cardinality({running \in DebugCases : case_status[running] = "running"}) < num_process
    /\ case_status' = [case_status EXCEPT ![i] = "running"]
    /\ UNCHANGED <<notPool, num_process, da_results, da_pc>>

\* debug_process of a test case returns its DebugState or raises in the worker.
WorkerEnds(i, outcome) ==
    /\ da_pc = "pool"
    /\ case_status[i] = "running"
    /\ case_status' = [case_status EXCEPT ![i] = outcome]
    /\ UNCHANGED <<notPool, num_process, da_results, da_pc>>

\* result.get() of each AsyncResult under try/except: the DebugState, or None
\* for a task that raised.
collect(status) ==
    [i \in DebugCases |-> IF status[i] = "returned" THEN "DebugState" ELSE "None"]

\* all(result.ready() ...) holds: the pool is left and the results are collected.
CollectResults ==
    /\ da_pc = "pool"
    /\ \A i \in DebugCases : case_status[i] \in ProcessOutcomes
    /\ da_results' = collect(case_status)
    /\ da_pc' = "returned"
    /\ UNCHANGED <<notPool, num_process, case_status>>

\* run_singleprocess: the next iteration of the loop over the debug states calls
\* debug_process; an exception of the call leaves the loop and run_singleprocess.
RunSingle(outcome) ==
    /\ da_pc = "run"
    /\ num_process = 1
    /\ LET i == Len(da_results) + 1
       IN  /\ i \in DebugCases
           /\ case_status' = [case_status EXCEPT ![i] = outcome]
           /\ IF outcome = "returned"
              THEN /\ da_results' = Append(da_results, "DebugState")
                   /\ da_pc' = IF i = NumDebugCases THEN "returned" ELSE "run"
              ELSE /\ da_pc' = "raised"
                   /\ UNCHANGED da_results
    /\ UNCHANGED <<notPool, num_process>>

PoolNext ==
    \/ SubmitAll
    \/ \E i \in DebugCases : WorkerStarts(i)
    \/ \E i \in DebugCases, outcome \in ProcessOutcomes : WorkerEnds(i, outcome)
    \/ CollectResults
    \/ \E outcome \in ProcessOutcomes : RunSingle(outcome)

-----------------------------------------------------------------------------
(* The playground directories of VerifyAgent.run (verify_agent.py) *)

\* config.hyper.verify_workers: the threads of the pool of VerifyAgent.
verify_workers == 2

MaxNominated == 3

\* The function nodes of the graph of the test case. The last graph is what
\* create_repo_graph leaves for a method m of p.A written on one line together
\* with an anonymous class that has a method m: the Tag that match_tag has
\* marked (inner class 1, covered) stands beside the Tag of the other m.
PlayGraphs ==
    { << MethodTag(<<"p">>, "A", <<>>, "m", <<4, 5>>, TRUE),
         MethodTag(<<"p">>, "A", <<>>, "m", <<9, 12>>, TRUE),
         MethodTag(<<"p">>, "B", <<>>, "m", <<4, 5>>, TRUE) >>,
      << MethodTag(<<"p">>, "A", <<"B">>, "m", <<4, 5>>, TRUE),
         MethodTag(<<"p">>, "A", <<>>, "n", <<4, 5>>, FALSE),
         MethodTag(<<"q">>, "A", <<>>, "m", <<4, 5>>, TRUE) >>,
      << MethodTag(<<"p">>, "A", <<>>, "m", <<4, 4>>, FALSE),
         MethodTag(<<"p">>, "A", <<"1">>, "m", <<4, 4>>, TRUE),
         MethodTag(<<"p">>, "A", <<>>, "g", <<5, 6>>, TRUE) >> }

\* The lists of at most MaxNominated method IDs of the graph, with repetitions.
Nominations(nodes) ==
    UNION {[1..n -> {method_id(nodes[i]) : i \in 1..Len(nodes)}] : n \in 1..MaxNominated}

\* playground_dir = output_dir / f"playground-{method.__hash__()}"
playground_dir(method) == <<"output_dir", "playground", Tag_hash(method)>>

\* build_search_results and prepare_verify_inputs: one VerifyInput for every
\* method ID named, with the method get_method gives for it.
prepare_verify_inputs(results, nodes) ==
    With(Dedup(results), LAMBDA method_ids :
        [i \in 1..Len(method_ids) |->
            [method_id |-> method_ids[i],
             method |-> dict_get(id_map_of(nodes), method_ids[i])]])

PlayStart ==
    /\ play_nodes \in PlayGraphs
    /\ nominated \in Nominations(play_nodes)
    /\ verify_inputs = <<>>
    /\ play_status = <<>>
    /\ play_dirs = {}
    /\ play_pc = "prepare"

PrepareVerifyInputs ==
    /\ play_pc = "prepare"
    /\ verify_inputs' = prepare_verify_inputs(nominated, play_nodes)
    /\ play_pc' = "run"
    /\ UNCHANGED <<notPlay, play_nodes, nominated, play_status, play_dirs>>

\* VerifyAgent.run: a process is created and run_process submitted for every input.
SubmitVerifications ==
    /\ play_pc = "run"
    /\ play_status' = [i \in 1..Len(verify_inputs) |-> "queued"]
    /\ play_pc' = "wait"
    /\ UNCHANGED <<notPlay, play_nodes, nominated, verify_inputs, play_dirs>>

InFlight(i) == play_status[i] = "in_flight"

\* A thread of the pool begins run_process: check_out_playground checks the
\* project out into the playground directory unless the directory exists.
EnterPlayground(i) ==
    /\ play_pc = "wait"
    /\ play_status[i] = "queued"
    /\ \A earlier \in 1..(i - 1) : play_status[earlier] # "queued"
    /\ Cardinality({j \in 1..Len(play_status) : InFlight(j)}) < verify_workers
    /\ play_status' = [play_status EXCEPT ![i] = "in_flight"]
    /\ play_dirs' = play_dirs \cup {playground_dir(verify_inputs[i].method)}
    /\ UNCHANGED <<notPlay, play_nodes, nominated, verify_inputs, play_pc>>

\* run_process comes to its end: shutil.rmtree(playground_dir), which raises
\* when the directory is gone.
LeavePlayground(i) ==
    /\ play_pc = "wait"
    /\ InFlight(i)
    /\ play_status' = [play_status EXCEPT ![i] =
                          IF playground_dir(verify_inputs[i].method) \in play_dirs
                          THEN "done" ELSE "raised"]
    /\ play_dirs' = play_dirs \ {playground_dir(verify_inputs[i].method)}
    /\ UNCHANGED <<notPlay, play_nodes, nominated, verify_inputs, play_pc>>

\* all(future.done() ...) holds.
VerificationsDone ==
    /\ play_pc = "wait"
    /\ \A i \in 1..Len(play_status) : play_status[i] \in {"done", "raised"}
    /\ play_pc' = IF \E i \in 1..Len(play_status) : play_status[i] = "raised"
                  THEN "raised" ELSE "returned"
    /\ UNCHANGED <<notPlay, play_nodes, nominated, verify_inputs, play_status, play_dirs>>

PlayNext ==
    \/ PrepareVerifyInputs
    \/ SubmitVerifications
    \/ \E i \in 1..Len(play_status) : EnterPlayground(i)
    \/ \E i \in 1..Len(play_status) : LeavePlayground(i)
    \/ VerificationsDone

-----------------------------------------------------------------------------
(* Tool execution in run_process (pingfl_agent.py, search_agent.py) *)

\* The sibling branches one process_function_calls has submitted, each with its
\* single tool call message.
NumBranches == 3

Branches == 1..NumBranches

SearchAgents == {"PingflAgent", "SearchAgent"}

\* What execute_function of a tool call comes to: the tool's text, or an exception
\* (a KeyError of function_args, a TypeError of the call, ...).
ExecuteOutcomes == {"returns", "raises"}

retry_feedback ==
    "Function cannot be called with the given arguments. Please try something else."

\* A branch as create_process(parent) leaves it: a copy of the parent's memory and
\* function_calls, the future submitted.
NewBranch ==
    [pc |-> "queued",
     memory |-> <<Message("user", "prompt"), Message("assistant", "call_0"),
                  Message("tool", "covered classes")>>,
     function_calls |-> <<"get_covered_classes">>]

\* PingflAgent.run_process, the part for single_tool_call_msg: execute_function
\* under try/except, then the tool call message and the result message.
pingfl_tool_call(process, outcome) ==
    [pc |-> "turn",
     memory |-> process.memory \o
                <<Message("assistant", "tool_call"),
                  Message("tool", IF outcome = "returns" THEN "tool result"
                                  ELSE retry_feedback)>>,
     function_calls |-> Append(process.function_calls,
                               IF outcome = "returns" THEN "tool" ELSE "retry")]

\* SearchAgent.run_process, the part for tool_call: execute_function is called
\* bare, so its exception ends run_process before anything is recorded.
search_tool_call(process, outcome) ==
    IF outcome = "returns"
    THEN [pc |-> "turn",
          memory |-> process.memory \o
                     <<Message("assistant", "tool_call"), Message("tool", "tool result")>>,
          function_calls |-> Append(process.function_calls, "tool")]
    ELSE [process EXCEPT !.pc = "raised"]

ToolStart ==
    /\ tool_agent \in SearchAgents
    /\ branches = [b \in Branches |-> NewBranch]
    /\ search_run = "waiting"

\* A pool thread runs run_process of branch b up to the oracle call.
ExecuteToolCall(b, outcome) ==
    /\ branches[b].pc = "queued"
    /\ branches' = [branches EXCEPT ![b] =
                        IF tool_agent = "PingflAgent"
                        THEN pingfl_tool_call(@, outcome)
                        ELSE search_tool_call(@, outcome)]
    /\ UNCHANGED <<notTool, tool_agent, search_run>>

\* The rest of run_process of branch b: the oracle answers with the result of the
\* branch, which goes to its memory, and the future is done.
BranchAnswers(b) ==
    /\ branches[b].pc = "turn"
    /\ branches' = [branches EXCEPT ![b].pc = "done",
                                    ![b].memory = Append(@, Message("assistant", "answer"))]
    /\ UNCHANGED <<notTool, tool_agent, search_run>>

\* run of both agents after the polling loop: every future is done; a future that
\* ended with an exception makes run raise, else the memories are kept.
SearchRunEnds ==
    /\ search_run = "waiting"
    /\ \A b \in Branches : branches[b].pc \in {"done", "raised"}
    /\ search_run' = IF \E b \in Branches : branches[b].pc = "raised"
                     THEN "raised" ELSE "returned"
    /\ UNCHANGED <<notTool, tool_agent, branches>>

ToolNext ==
    \/ \E b \in Branches, outcome \in ExecuteOutcomes : ExecuteToolCall(b, outcome)
    \/ \E b \in Branches : BranchAnswers(b)
    \/ SearchRunEnds

-----------------------------------------------------------------------------
(* The loops around the oracle call that react to a malformed response
   (pingfl_agent.py, verify_agent.py, debug_agent.py) *)

\* The number of malformed responses in a row that are followed.
MaxMalformed == 5

RepromptLoops == {"search_turn", "verdict", "summary"}

\* The messages of the memory when a loop is entered.
loop_memory(loop) ==
    CASE loop = "search_turn" -> <<Message("user", "SEARCH_AGENT_USER_PROMPT")>>
      [] loop = "verdict" -> <<Message("user", "VERIFY_AGENT_RESULT_PROMPT")>>
      [] loop = "summary" -> <<Message("user", "result_report")>>

RepromptStart ==
    /\ rp_loop \in RepromptLoops
    /\ rp_messages = loop_memory(rp_loop)
    /\ rp_malformed = 0
    /\ rp_pc = "calling"

\* PingflAgent.run_process, one pass of the loop for the next tool call: a response
\* with tool calls leaves the loop; else the next call is made with the memory and
\* the two temporary messages.
SearchTurnPass(answer) ==
    /\ rp_loop = "search_turn"
    /\ rp_pc = "calling"
    /\ rp_malformed < MaxMalformed
    /\ IF answer = "tool_calls"
       THEN /\ rp_pc' = "left"
            /\ UNCHANGED <<rp_messages, rp_malformed>>
       ELSE /\ rp_messages' = loop_memory(rp_loop) \o
                                <<Message("assistant", answer),
                                  Message("user", "Please call a function for the next step.")>>
            /\ rp_malformed' = rp_malformed + 1
            /\ UNCHANGED rp_pc
    /\ UNCHANGED <<notPrompt, rp_loop>>

\* VerifyAgent.run_process, one pass of the loop for the verification result.
VerdictPass(answer) ==
    /\ rp_loop = "verdict"
    /\ rp_pc = "calling"
    /\ rp_malformed < MaxMalformed
    /\ CASE answer = "no_json_block" ->
                /\ rp_messages' = rp_messages \o
                                    <<Message("assistant", answer),
                                      Message("user", "Reponse format error")>>
                /\ rp_malformed' = rp_malformed + 1
                /\ UNCHANGED rp_pc
         [] answer = "bad_category" ->
                /\ rp_messages' = rp_messages \o
                                    <<Message("assistant", answer),
                                      Message("user", "Invalid verification result category")>>
                /\ rp_malformed' = rp_malformed + 1
                /\ UNCHANGED rp_pc
         [] answer = "not_json" ->
                /\ rp_messages' = Append(rp_messages, Message("assistant", answer))
                /\ rp_pc' = "raised"
                /\ UNCHANGED rp_malformed
         [] answer = "verdict" ->
                /\ rp_messages' = Append(rp_messages, Message("assistant", answer))
                /\ rp_pc' = "left"
                /\ UNCHANGED rp_malformed
    /\ UNCHANGED <<notPrompt, rp_loop>>

\* DebugAgent.combine_test_case_results, one pass of the loop for the summary.
SummaryPass(answer) ==
    /\ rp_loop = "summary"
    /\ rp_pc = "calling"
    /\ rp_malformed < MaxMalformed
    /\ IF answer = "json_block"
       THEN /\ rp_messages' = Append(rp_messages, Message("assistant", answer))
            /\ rp_pc' = "left"
            /\ UNCHANGED rp_malformed
       ELSE /\ rp_messages' = rp_messages \o
                                <<Message("assistant", answer),
                                  Message("system", "Reponse format error")>>
            /\ rp_malformed' = rp_malformed + 1
            /\ UNCHANGED rp_pc
    /\ UNCHANGED <<notPrompt, rp_loop>>

PromptNext ==
    \/ \E answer \in {"tool_calls", "text", "empty"} : SearchTurnPass(answer)
    \/ \E answer \in {"no_json_block", "bad_category", "not_json", "verdict"} :
          VerdictPass(answer)
    \/ \E answer \in {"json_block", "text", "empty"} : SummaryPass(answer)

-----------------------------------------------------------------------------
(* create_process: the Memory and function_calls objects of parent and children
   (pingfl_agent.py, search_agent.py) *)

\* The number of processes created and the length a list is followed to.
MaxCopied == 3

MaxListLen == 3

\* A ProcessState by the objects it refers to.
ProcessRefs(memory, function_calls) == [memory |-> memory, function_calls |-> function_calls]

\* Mutant: the child is given the parent's own object.
same_object(heap, ref, fresh) == [heap |-> heap, ref |-> ref]

\* copy.deepcopy of the list object at ref: a new object at the address fresh with
\* the same content.
deepcopy(heap, ref, fresh) == [heap |-> Put(heap, fresh, heap[ref]), ref |-> fresh]

\* The process map after create_process() and init_memory: the entry process with
\* a new Memory and the default empty function_calls list, filled by init_memory.
CopyStart ==
    /\ cp_heap = (0 :> <<"user">>) @@ (1 :> <<"get_covered_classes">>)
    /\ cp_processes = (0 :> ProcessRefs(0, 1))
    /\ cp_counter = 1

\* create_process(parent_id): under the lock, the child gets deep copies of the
\* parent's memory and function_calls.
create_process(parent_id) ==
    /\ cp_counter < MaxCopied
    /\ parent_id \in DOMAIN cp_processes
    /\ LET parent_process == cp_processes[parent_id]
           mem == deepcopy(cp_heap, parent_process.memory, 2 * cp_counter)
           calls == deepcopy(mem.heap, parent_process.function_calls, 2 * cp_counter + 1)
       IN  /\ cp_heap' = calls.heap
           /\ cp_processes' = Put(cp_processes, cp_counter, ProcessRefs(mem.ref, calls.ref))
    /\ cp_counter' = cp_counter + 1
    /\ UNCHANGED notCopy

\* process.memory.add_message(message) in the thread of process p.
add_message(p, role) ==
    /\ p \in DOMAIN cp_processes
    /\ Len(cp_heap[cp_processes[p].memory]) < MaxListLen
    /\ cp_heap' = [cp_heap EXCEPT ![cp_processes[p].memory] = Append(@, role)]
    /\ UNCHANGED <<notCopy, cp_processes, cp_counter>>

\* process.function_calls.append(name) in the thread of process p.
append_function_call(p, name) ==
    /\ p \in DOMAIN cp_processes
    /\ Len(cp_heap[cp_processes[p].function_calls]) < MaxListLen
    /\ cp_heap' = [cp_heap EXCEPT ![cp_processes[p].function_calls] = Append(@, name)]
    /\ UNCHANGED <<notCopy, cp_processes, cp_counter>>

CopyProcessIds == 0..(MaxCopied - 1)

CopyNext ==
    \/ \E parent_id \in CopyProcessIds : create_process(parent_id)
    \/ \E p \in CopyProcessIds : add_message(p, "assistant")
    \/ \E p \in CopyProcessIds : append_function_call(p, "get_method_code_for_id")

-----------------------------------------------------------------------------
(* run: the polling loop over self.futures, one future at a time, against the
   branches that append and remove futures (pingfl_agent.py, search_agent.py) *)

\* The number of branches of a run and the workers of its thread pool.
MaxPollBranches == 4

PollWorkers == 2

PollIds == 0..(MaxPollBranches - 1)

\* A run_process call: its position, the children its turn still has to create and
\* the child it has submitted and not yet appended to self.futures (-1: none).
Branch(pc, to_create, submitted) ==
    [pc |-> pc, to_create |-> to_create, submitted |-> submitted]

\* Mutant: a future counts as done when it is not running.
future_not_running(branch) == branch.pc \in {"queued", "done"}

\* Future.done(): the call has returned or raised.
future_done(branch) == branch.pc = "done"

\* list.remove of the future of process_id, when it is in the list.
remove_future(futures_list, process_id) ==
    SelectSeq(futures_list, LAMBDA f : f # process_id)

\* run up to the polling loop: the entry process is created and submitted, its
\* future appended.
PollStart ==
    /\ pl_futures = <<0>>
    /\ pl_branches = (0 :> Branch("queued", 0, -1))
    /\ pl_counter = 1
    /\ pl_poll = 0
    /\ pl_run = "polling"

\* A pool worker takes a submitted call.
BranchStarts(b) ==
    /\ b \in DOMAIN pl_branches
    /\ pl_branches[b].pc = "queued"
    /\ Cardinality({r \in DOMAIN pl_branches :
                        pl_branches[r].pc \in {"running", "forking"}}) < PollWorkers
    /\ pl_branches' = [pl_branches EXCEPT ![b].pc = "running"]
    /\ UNCHANGED <<notPoll, pl_futures, pl_counter, pl_poll, pl_run>>

\* run_process returns after the final answer of the branch, or raises.
BranchEnds(b) ==
    /\ b \in DOMAIN pl_branches
    /\ pl_branches[b].pc = "running"
    /\ pl_branches' = [pl_branches EXCEPT ![b].pc = "done"]
    /\ UNCHANGED <<notPoll, pl_futures, pl_counter, pl_poll, pl_run>>

\* The turn asks for tool calls: process_function_calls is entered with k children
\* to create.
BranchForks(b, k) ==
    /\ b \in DOMAIN pl_branches
    /\ pl_branches[b].pc = "running"
    /\ pl_counter + k <= MaxPollBranches
    /\ pl_branches' = [pl_branches EXCEPT ![b] = Branch("forking", k, -1)]
    /\ UNCHANGED <<notPoll, pl_futures, pl_counter, pl_poll, pl_run>>

\* process_function_calls, in the loop: create_process and thread_pool.submit.
SubmitChild(b) ==
    /\ b \in DOMAIN pl_branches
    /\ pl_branches[b].pc = "forking"
    /\ pl_branches[b].to_create > 0
    /\ pl_branches[b].submitted = -1
    /\ pl_branches' = Put([pl_branches EXCEPT ![b].to_create = @ - 1,
                                              ![b].submitted = pl_counter],
                          pl_counter, Branch("queued", 0, -1))
    /\ pl_counter' = pl_counter + 1
    /\ UNCHANGED <<notPoll, pl_futures, pl_poll, pl_run>>

\* process_function_calls, in the loop: self.futures.append(future).
AppendFuture(b) ==
    /\ b \in DOMAIN pl_branches
    /\ pl_branches[b].pc = "forking"
    /\ pl_branches[b].submitted # -1
    /\ pl_futures' = Append(pl_futures, pl_branches[b].submitted)
    /\ pl_branches' = [pl_branches EXCEPT ![b].submitted = -1]
    /\ UNCHANGED <<notPoll, pl_counter, pl_poll, pl_run>>

\* process_function_calls, last locked block, the last statement of run_process:
\* the parent removes its future from the list and the call returns.
RemoveOwnFuture(b) ==
    /\ b \in DOMAIN pl_branches
    /\ pl_branches[b].pc = "forking"
    /\ pl_branches[b].to_create = 0
    /\ pl_branches[b].submitted = -1
    /\ pl_futures' = remove_future(pl_futures, b)
    /\ pl_branches' = [pl_branches EXCEPT ![b].pc = "done"]
    /\ UNCHANGED <<notPoll, pl_counter, pl_poll, pl_run>>

\* The polling loop wakes up and all(...) starts at the head of the list.
PollWakes ==
    /\ pl_run = "polling"
    /\ pl_poll = 0
    /\ pl_poll' = 1
    /\ UNCHANGED <<notPoll, pl_futures, pl_branches, pl_counter, pl_run>>

\* all(future.done() for future in self.futures), one step of the list iterator:
\* past the end every future seen was done and the loop is left; a future that is
\* not done sends the loop to sleep; else the iterator moves on.
PollChecks ==
    /\ pl_run = "polling"
    /\ pl_poll >= 1
    /\ IF pl_poll > Len(pl_futures)
       THEN pl_run' = "collecting" /\ pl_poll' = 0
       ELSE /\ pl_poll' = IF future_done(pl_branches[pl_futures[pl_poll]])
                          THEN pl_poll + 1 ELSE 0
            /\ UNCHANGED pl_run
    /\ UNCHANGED <<notPoll, pl_futures, pl_branches, pl_counter>>

PollNext ==
    \/ \E b \in PollIds : BranchStarts(b)
    \/ \E b \in PollIds : BranchEnds(b)
    \/ \E b \in PollIds, k \in 1..2 : BranchForks(b, k)
    \/ \E b \in PollIds : SubmitChild(b)
    \/ \E b \in PollIds : AppendFuture(b)
    \/ \E b \in PollIds : RemoveOwnFuture(b)
    \/ PollWakes
    \/ PollChecks

-----------------------------------------------------------------------------
(* process_lock in process_function_calls and create_process (pingfl_agent.py) *)

\* The parent threads that run process_function_calls side by side, each for a
\* turn with one tool call.
NumLockThreads == 2

LockThreads == 0..(NumLockThreads - 1)

\* One mutation of the bookkeeping: who made it, of what, and who held the lock.
Mutation(thread, object, holder) == [thread |-> thread, object |-> object, holder |-> holder]

\* Mutant: the with-block is entered without waiting for the lock to be free (a
\* lock object of its own for every call).
AcquireOwnLock(t, at, to) ==
    /\ lk_pc[t] = at
    /\ lk_holder' = t
    /\ lk_pc' = [lk_pc EXCEPT ![t] = to]
    /\ UNCHANGED <<notLock, lk_book, lk_log>>

LockStart ==
    /\ lk_holder = -1
    /\ lk_pc = [t \in LockThreads |-> "budget"]
    /\ lk_book = [processes |-> LockThreads,
                  process_counter |-> NumLockThreads,
                  cur_paths |-> NumLockThreads,
                  futures |-> [t \in 1..NumLockThreads |-> t - 1],
                  child |-> [t \in LockThreads |-> -1],
                  scan |-> [t \in LockThreads |-> 0]]
    /\ lk_log = {}

\* with self.process_lock: the thread waits for the lock and takes it.
Acquire(t, at, to) ==
    /\ lk_pc[t] = at
    /\ lk_holder = -1
    /\ lk_holder' = t
    /\ lk_pc' = [lk_pc EXCEPT ![t] = to]
    /\ UNCHANGED <<notLock, lk_book, lk_log>>

\* The three with-blocks a turn enters: in process_function_calls for the path
\* budget, in create_process, and in process_function_calls for the removal.
AcquireLock(t) ==
    \/ Acquire(t, "budget", "in_budget")
    \/ Acquire(t, "create", "in_create")
    \/ Acquire(t, "retire", "in_retire")

\* First locked block of process_function_calls: max_parallel is fixed; the turn
\* with more than one child adds to cur_paths.
BookPaths(t, width) ==
    /\ lk_pc[t] = "in_budget"
    /\ IF width > 1
       THEN /\ lk_book' = [lk_book EXCEPT !.cur_paths = @ + (width - 1)]
            /\ lk_log' = lk_log \cup {Mutation(t, "cur_paths", lk_holder)}
       ELSE UNCHANGED <<lk_book, lk_log>>
    /\ lk_holder' = -1
    /\ lk_pc' = [lk_pc EXCEPT ![t] = "create"]
    /\ UNCHANGED notLock

\* create_process(parent_id), the locked block: the child is put into processes
\* and process_counter moves on.
InsertProcess(t) ==
    /\ lk_pc[t] = "in_create"
    /\ lk_book' = [lk_book EXCEPT !.processes = @ \cup {lk_book.process_counter},
                                  !.process_counter = @ + 1,
                                  !.child[t] = lk_book.process_counter]
    /\ lk_log' = lk_log \cup {Mutation(t, "processes", lk_holder)}
    /\ lk_holder' = -1
    /\ lk_pc' = [lk_pc EXCEPT ![t] = "submit"]
    /\ UNCHANGED notLock

\* thread_pool.submit and self.futures.append(future), outside any with-block.
SubmitAndAppend(t) ==
    /\ lk_pc[t] = "submit"
    /\ lk_book' = [lk_book EXCEPT !.futures = Append(@, lk_book.child[t])]
    /\ lk_log' = lk_log \cup {Mutation(t, "futures.append", lk_holder)}
    /\ lk_pc' = [lk_pc EXCEPT ![t] = "retire"]
    /\ UNCHANGED <<notLock, lk_holder>>

\* Last locked block: self.processes.pop(process_id); the loop over self.futures
\* starts.
PopParent(t) ==
    /\ lk_pc[t] = "in_retire"
    /\ lk_book' = [lk_book EXCEPT !.processes = @ \ {t}, !.scan[t] = 1]
    /\ lk_log' = lk_log \cup {Mutation(t, "processes", lk_holder)}
    /\ lk_pc' = [lk_pc EXCEPT ![t] = "in_remove"]
    /\ UNCHANGED <<notLock, lk_holder>>

\* One pass of 'for future in self.futures': the parent's own future is removed,
\* any other is passed; at the end of the list the lock is released.
ScanFutures(t) ==
    /\ lk_pc[t] = "in_remove"
    /\ LET i == lk_book.scan[t]
       IN  IF i > Len(lk_book.futures)
           THEN /\ lk_holder' = -1
                /\ lk_pc' = [lk_pc EXCEPT ![t] = "done"]
                /\ lk_book' = [lk_book EXCEPT !.scan[t] = 0]
                /\ UNCHANGED lk_log
           ELSE /\ IF lk_book.futures[i] = t
                   THEN /\ lk_book' = [lk_book EXCEPT
                                          !.futures = remove_future(@, t),
                                          !.scan[t] = i + 1]
                        /\ lk_log' = lk_log \cup {Mutation(t, "futures.remove", lk_holder)}
                   ELSE /\ lk_book' = [lk_book EXCEPT !.scan[t] = i + 1]
                        /\ UNCHANGED lk_log
                /\ UNCHANGED <<lk_holder, lk_pc>>
    /\ UNCHANGED notLock

LockNext ==
    \/ \E t \in LockThreads : AcquireLock(t)
    \/ \E t \in LockThreads, width \in 1..2 : BookPaths(t, width)
    \/ \E t \in LockThreads : InsertProcess(t)
    \/ \E t \in LockThreads : SubmitAndAppend(t)
    \/ \E t \in LockThreads : PopParent(t)
    \/ \E t \in LockThreads : ScanFutures(t)

-----------------------------------------------------------------------------
(* NewRepoSearcher.get_method_ids_contain_string (graph_searcher.py) *)

\* The methods of the searcher, and max_count, in the calls modelled.
MaxContainMethods == 4

MaxContainCount == 2

\* A method of method_id_map: its Method ID, is_test and code.
ContainMethod(id, is_test, code) == [method_id |-> id, is_test |-> is_test, code |-> code]

\* The text the call returns: the SnippetNotFoundError message, or the prefix, the
\* numbered Method IDs and the suffix ("" or "... and {more} more methods.").
Listing(kind, listed, suffix) == [kind |-> kind, listed |-> listed, suffix |-> suffix]

NoSuffix == [present |-> FALSE, more |-> 0]

MoreSuffix(more) == [present |-> TRUE, more |-> more]

NoListing == Listing("none", <<>>, NoSuffix)

\* The methods the loop over method_id_map.values() appends.
methods_containing(all_methods, string_content) ==
    FoldLeft(LAMBDA methods, method :
                 IF method.is_test THEN methods
                 ELSE IF IsIn(string_content, method.code) THEN Append(methods, method)
                 ELSE methods,
             <<>>, all_methods)

\* get_method_ids_contain_string: methods = methods[:max_count] is assigned before
\* the suffix is formatted with len(methods) - max_count.
get_method_ids_contain_string(all_methods, string_content, max_count, seed) ==
    With(methods_containing(all_methods, string_content), LAMBDA found :
        IF found = <<>> THEN Listing("SnippetNotFoundError.message", <<>>, NoSuffix)
        ELSE With(list_set(found, seed), LAMBDA methods :
                 IF Len(methods) > max_count
                 THEN With(SubSeq(methods, 1, max_count), LAMBDA cut :
                          Listing("listing",
                                  [i \in 1..Len(cut) |-> cut[i].method_id],
                                  MoreSuffix(Len(cut) - max_count)))
                 ELSE Listing("listing",
                              [i \in 1..Len(methods) |-> methods[i].method_id], NoSuffix)))

\* The code of a method, as far as the searched texts go.
ContainCodes == {<<"x">>, <<"y">>, <<"x", "y">>}

ContainStrings == {<<"x">>, <<"x", "y">>, <<"z">>}

ContainCall(string_content, max_count) ==
    [string_content |-> string_content, max_count |-> max_count]

NoContainCall == ContainCall(<<>>, 0)

ContainStart ==
    /\ cs_methods \in
           UNION {{[i \in 1..n |-> ContainMethod(i, of[i][1], of[i][2])] :
                      of \in [1..n -> BOOLEAN \X ContainCodes]} :
                  n \in 0..MaxContainMethods}
    /\ cs_seed \in HashSeeds
    /\ cs_call = NoContainCall
    /\ cs_answer = NoListing

GetMethodIdsContainString(string_content, max_count) ==
    /\ cs_call = NoContainCall
    /\ cs_call' = ContainCall(string_content, max_count)
    /\ cs_answer' = get_method_ids_contain_string(cs_methods, string_content, max_count, cs_seed)
    /\ UNCHANGED <<notContain, cs_methods, cs_seed>>

ContainNext ==
    \E string_content \in ContainStrings, max_count \in 1..MaxContainCount :
        GetMethodIdsContainString(string_content, max_count)

-----------------------------------------------------------------------------
(* create_dynamic_graph on call graphs with synthetic methods, cycles and self
   loops (construct_graph.py) *)

\* The function elements of A.java: f, g and m, as objects 1, 2 and 3.
DynObjs == <<1, 2, 3>>

DynHeap ==
    [o \in Range(DynObjs) |->
        CASE o = 1 -> Tag("A", <<2, 3>>, "f", "def", "function")
          [] o = 2 -> Tag("A", <<5, 6>>, "g", "def", "function")
          [] o = 3 -> Tag("A", <<4, 4>>, "m", "def", "function")]

\* The nodes of the recorded call graph: f, g and m, and two synthetic methods of
\* the inner class A$1 that no element of the file matches.
DynF == CGMethodNode(<<"A">>, "f", 2, 3)

DynG == CGMethodNode(<<"A">>, "g", 5, 6)

DynM == CGMethodNode(<<"A">>, "m", 4, 4)

DynS1 == CGMethodNode(<<"A", "1">>, "access", 0, 0)

DynS2 == CGMethodNode(<<"A", "1">>, "lambda", 0, 0)

DynNodes == {DynF, DynG, DynM, DynS1, DynS2}

\* The calls a recorded graph is made of, in the order of inst_graph.edges.
DynCalls ==
    << <<DynF, DynS1>>, <<DynF, DynG>>, <<DynS1, DynS1>>, <<DynS1, DynS2>>,
       <<DynS2, DynS1>>, <<DynS1, DynG>>, <<DynS2, DynM>>, <<DynS2, DynF>>,
       <<DynG, DynS2>>, <<DynM, DynM>> >>

NotBuilt == Built(EmptyGraph, <<>>, "not built")

Descent(node, matched) == [node |-> node, matched |-> matched]

DynStart ==
    /\ dg_inst \in {LET at == SelectSeq([i \in 1..Len(DynCalls) |-> i],
                                         LAMBDA call_idx : call_idx \in keep)
                     IN  [i \in 1..Len(at) |-> DynCalls[at[i]]] :
                        keep \in SUBSET (1..Len(DynCalls))}
    /\ dg_built = NotBuilt
    /\ dg_descent = <<>>

\* create_dynamic_graph(repo_graph, inst_graph, tags) on a graph without edges.
CreateDynamicGraph ==
    /\ dg_built = NotBuilt
    /\ dg_built' = create_dynamic_graph(EmptyGraph, DynHeap, dg_inst, DynObjs)
    /\ UNCHANGED <<notDyn, dg_inst, dg_descent>>

\* get_all_matched_successors(u, set()) as the loop over inst_graph.edges calls it:
\* for a matched u with an unmatched successor.
GetAllMatchedSuccessors(u) ==
    /\ dg_built # NotBuilt
    /\ dg_descent = <<>>
    /\ LET node_to_tag == match_nodes(DynHeap, dg_inst, DynObjs).node_to_tag
       IN  /\ dict_get(node_to_tag, u) # 0
           /\ \E call \in Range(dg_inst) :
                  call[1] = u /\ dict_get(node_to_tag, call[2]) = 0
           /\ dg_descent' =
                  <<Descent(u, get_all_matched_successors(dg_inst, node_to_tag, u, {}).matched)>>
    /\ UNCHANGED <<notDyn, dg_inst, dg_built>>

DynNext ==
    \/ CreateDynamicGraph
    \/ \E u \in DynNodes : GetAllMatchedSuccessors(u)

-----------------------------------------------------------------------------
(* create_static_graph on a file with a nested class and references
   (construct_graph.py) *)

\* The elements of A.java in the order of the captures: class A with the nested
\* class B; in B the methods f and g, g calling itself and f on its second line,
\* and the field x whose initializer calls f; in A a second method f and the
\* one-line method h.
StaticUniverse ==
    << Tag("A", <<1, 20>>, "A", "def", "class"),
       Tag("A", <<2, 10>>, "B", "def", "class"),
       Tag("A", <<3, 4>>, "f", "def", "function"),
       Tag("A", <<5, 6>>, "g", "def", "function"),
       Tag("A", <<6, 6>>, "g", "ref", None),
       Tag("A", <<6, 6>>, "f", "ref", None),
       Tag("A", <<7, 7>>, "x", "def", "field"),
       Tag("A", <<7, 7>>, "f", "ref", None),
       Tag("A", <<12, 13>>, "f", "def", "function"),
       Tag("A", <<14, 14>>, "h", "def", "function") >>

\* The tags of a version of the file: class A and any of the other elements.
StaticTagLists ==
    {LET at == SelectSeq([i \in 1..Len(StaticUniverse) |-> i],
                         LAMBDA tag_idx : tag_idx \in keep)
     IN  [i \in 1..Len(at) |-> StaticUniverse[at[i]]] :
        keep \in {k \in SUBSET (1..Len(StaticUniverse)) : 1 \in k}}

NoStaticGraph == Building(EmptyGraph, "not built")

StaticStart ==
    /\ st_tags \in StaticTagLists
    /\ st_built = NoStaticGraph

\* The objects of the tags, numbered in the order of the list.
StaticObjs == [i \in 1..Len(st_tags) |-> i]

\* create_static_graph(repo_graph, tags) on the graph nx.MultiDiGraph().
CreateStaticGraph ==
    /\ st_built = NoStaticGraph
    /\ st_built' = create_static_graph(st_tags, StaticObjs)
    /\ UNCHANGED <<notStatic, st_tags>>

StaticNext == CreateStaticGraph

-----------------------------------------------------------------------------
(* A search run to its end: the loop of run_process around the oracle call and
   the scheduling of the thread pool (pingfl_agent.py) *)

\* The budgets of the runs that are followed to their end.
LiveHyperConfigs ==
    { Hyper(1, 1, 2, 1, 1),
      Hyper(2, 2, 3, 1, 1),
      Hyper(2, 2, 2, 2, 2) }

\* The contents of an oracle response that carries no tool call.
PlainAnswers == {"text", "empty"}

\* PingflAgent.__init__
FanLiveStart ==
    /\ hyper \in LiveHyperConfigs
    /\ cur_paths = 1
    /\ process_counter = 0
    /\ processes = <<>>
    /\ futures = {}
    /\ threads = <<>>
    /\ run_state = "init"

\* run_process, one pass of the while True loop in which the response has no tool
\* call: the next call is made with the memory and the two temporary messages.
OracleAnswersPlainly(p, answer) ==
    /\ p \in DOMAIN threads
    /\ threads[p].pc = "turn"
    /\ ~LimitReached(p)
    /\ threads' = [threads EXCEPT ![p].tmp_messages =
                      <<Message("assistant", answer),
                        Message("user", "Please call a function for the next step.")>>]
    /\ UNCHANGED <<notFan, hyper, cur_paths, process_counter, processes, futures,
                   run_state>>

FanLiveNext ==
    \/ FanNext
    \/ \E p \in Pids, answer \in PlainAnswers : OracleAnswersPlainly(p, answer)

\* The steps of the worker that runs run_process for p, with an oracle that answers
\* each call.
WorkerStep(p) ==
    \/ StartProcess(p)
    \/ TerminalTurn(p)
    \/ \E k \in 1..MaxTurnCalls : ToolCallTurn(p, k)
    \/ \E outcome \in ToolOutcomes : CreateChild(p, outcome)
    \/ RetireParent(p)
    \/ \E answer \in PlainAnswers : OracleAnswersPlainly(p, answer)

\* ThreadPoolExecutor runs every submitted call, every running call takes its next
\* step, and run polls the futures until all are done.
FanFairness ==
    /\ WF_vars(RunEntry)
    /\ WF_vars(RunReturns)
    /\ \A p \in Pids : WF_vars(WorkerStep(p))

-----------------------------------------------------------------------------
(* The transcripts of the branches of a search run: Memory.messages of every
   process (pingfl_agent.py, memory.py, llm_backend.py) *)

\* The tool calls a lineage records, the paths of a run and the tool calls of a
\* response that are followed.
TranscriptToolCalls == 3

TranscriptPaths == 2

TranscriptParallel == 2

\* A tool call of a response (ChatCompletionMessageToolCall).
ChatToolCall(id, name) == [id |-> id, name |-> name]

\* A message of the chat: an assistant message carries tool_calls, a tool message a
\* tool_call_id.
ChatMessage(role, content, tool_calls, tool_call_id) ==
    [role |-> role, content |-> content, tool_calls |-> tool_calls,
     tool_call_id |-> tool_call_id]

TextMessage(role, content) == ChatMessage(role, content, <<>>, "")

DEFAULT_FUNCTION ==
    ChatMessage("assistant", "First, let's look at all the classes covered",
                <<ChatToolCall("call_default", "get_covered_classes")>>, "")

\* The message run_process makes up when the budget of the branch is used up.
ForcedExit ==
    ChatMessage("assistant", "I have reached the maximum number of tool calls",
                <<ChatToolCall("call_exit", "exit_debugging")>>, "")

\* Mutant: the message of a child with every tool call of the response.
get_single_tool_call_msg_whole(msg, index) == msg

\* OpenAIBackend.get_single_tool_call_msg
get_single_tool_call_msg(msg, index) == [msg EXCEPT !.tool_calls = <<msg.tool_calls[index]>>]

\* OpenAIBackend.get_tool_result_msg
get_tool_result_msg(tool_call, tool_result) ==
    ChatMessage("tool", tool_result, <<>>, tool_call.id)

\* Memory.__init__: the system prompt.
NewMemory == <<TextMessage("system", "SEARCH_AGENT_SYSTEM_PROMPT")>>

\* The call ids and tool names of the responses of the oracle.
CallIds == {"call_a", "call_b"}

ToolNames == {"get_method_code_for_id", "exit_debugging"}

\* The responses of the oracle: one tool call, or a search and a second tool call.
ToolCallsOfResponse ==
    LET calls == {ChatToolCall(id, name) : id \in CallIds, name \in ToolNames}
    IN  {<<call>> : call \in calls} \cup
        {<<ChatToolCall(id, "get_method_code_for_id"), call>> : id \in CallIds, call \in calls}

\* The messages of search.json as two earlier runs saved them: one that nominated
\* a method after a search, one that left at once.
SavedMemories ==
    { NewMemory \o
      << TextMessage("user", "SEARCH_AGENT_USER_PROMPT"),
         DEFAULT_FUNCTION,
         get_tool_result_msg(ChatToolCall("call_default", ""), "covered classes"),
         ChatMessage("assistant", "", <<ChatToolCall("call_a", "get_method_code_for_id")>>, ""),
         get_tool_result_msg(ChatToolCall("call_a", ""), "code"),
         ChatMessage("assistant", "", <<ChatToolCall("call_b", "nominate_suspicious_method")>>, ""),
         get_tool_result_msg(ChatToolCall("call_b", ""), "verification report"),
         TextMessage("user", "FAULT_LOCALIZATION_PROMPT_AUTOFL"),
         TextMessage("assistant", "answer") >>,
      NewMemory \o
      << TextMessage("user", "SEARCH_AGENT_USER_PROMPT"),
         DEFAULT_FUNCTION,
         get_tool_result_msg(ChatToolCall("call_default", ""), "covered classes"),
         TextMessage("user", "FAULT_LOCALIZATION_PROMPT_AUTOFL"),
         TextMessage("assistant", "answer") >> }

\* A ProcessState by its memory, its function calls and the message run_process is
\* submitted with (<<>> for None).
Transcript(pc, memory, function_calls, single_tool_call_msg) ==
    [pc |-> pc, memory |-> memory, function_calls |-> function_calls,
     single_tool_call_msg |-> single_tool_call_msg]

\* load_memory: the cached messages before the first nominate_suspicious_method
\* call are added to the memory, the names of their tool calls are the function calls.
load_memory(process, cached) ==
    LET nominations == {i \in 1..Len(cached) :
                           /\ cached[i].tool_calls # <<>>
                           /\ cached[i].tool_calls[1].name = "nominate_suspicious_method"}
        stop == IF nominations = {} THEN Len(cached) + 1
                ELSE CHOOSE i \in nominations : \A j \in nominations : i <= j
        cached_messages == SubSeq(cached, 1, stop - 1)
        with_calls == SelectSeq(cached_messages, LAMBDA message : message.tool_calls # <<>>)
    IN  [process EXCEPT
            !.memory = @ \o cached_messages,
            !.function_calls = [i \in 1..Len(with_calls) |-> with_calls[i].tool_calls[1].name]]

\* init_memory
init_memory(process, cache) ==
    IF cache # <<>>
    THEN load_memory(process, cache[1])
    ELSE [process EXCEPT
             !.memory = @ \o
                 << TextMessage("user", "SEARCH_AGENT_USER_PROMPT"),
                    DEFAULT_FUNCTION,
                    ChatMessage("tool", "covered classes", <<>>, "call_default") >>,
             !.function_calls = Append(@, "get_covered_classes")]

\* PingflAgent.__init__ with the configuration of the run.
TranscriptStart ==
    /\ search_json \in {<<>>} \cup {<<saved>> : saved \in SavedMemories}
    /\ tr_processes = <<>>
    /\ tr_counter = 0

\* PingflAgent.run: create_process(input), init_memory and the submission of
\* run_process for the entry process.
TranscriptEntry ==
    /\ tr_counter = 0
    /\ tr_processes' = Put(tr_processes, tr_counter,
                           init_memory(Transcript("queued", NewMemory, <<>>, <<>>),
                                       search_json))
    /\ tr_counter' = tr_counter + 1
    /\ UNCHANGED <<notTranscript, search_json>>

\* run_process, the part for single_tool_call_msg: the call is executed under
\* try/except, then the message and the message of its result go to the memory.
ExecuteSingleToolCall(p, outcome) ==
    /\ p \in DOMAIN tr_processes
    /\ tr_processes[p].pc = "queued"
    /\ LET process == tr_processes[p]
           msg == process.single_tool_call_msg
       IN  tr_processes' =
             [tr_processes EXCEPT ![p] =
                 IF msg = <<>>
                 THEN [process EXCEPT !.pc = "turn"]
                 ELSE Transcript(
                        "turn",
                        process.memory \o
                          << msg[1],
                             get_tool_result_msg(
                                 msg[1].tool_calls[1],
                                 IF outcome = "returns" THEN "tool result"
                                 ELSE retry_feedback) >>,
                        Append(process.function_calls,
                               IF outcome = "returns" THEN msg[1].tool_calls[1].name
                               ELSE "retry"),
                        msg)]
    /\ UNCHANGED <<notTranscript, search_json, tr_counter>>

\* run_process after its message is fixed: process_function_calls (the children
\* with a copy of the memory and one tool call each, the parent removed), or the
\* fault localization turn.
FollowMessage(p, message) ==
    LET process == tr_processes[p]
        width == fork_width(Len(message.tool_calls), TranscriptParallel,
                            TranscriptPaths, Cardinality(DOMAIN tr_processes))
    IN  /\ IF message.tool_calls[1].name # "exit_debugging"
           THEN /\ tr_processes' =
                      [q \in (DOMAIN tr_processes \ {p}) \cup
                             (tr_counter .. tr_counter + width - 1) |->
                          IF q \in DOMAIN tr_processes
                          THEN tr_processes[q]
                          ELSE Transcript("queued", process.memory, process.function_calls,
                                          <<get_single_tool_call_msg(
                                                message, q - tr_counter + 1)>>)]
                /\ tr_counter' = tr_counter + width
           ELSE /\ tr_processes' =
                      [tr_processes EXCEPT
                          ![p].pc = "done",
                          ![p].memory = @ \o
                              << TextMessage("user", "FAULT_LOCALIZATION_PROMPT_AUTOFL"),
                                 TextMessage("assistant", "answer") >>]
                /\ UNCHANGED tr_counter
        /\ UNCHANGED <<notTranscript, search_json>>

\* run_process from the budget test on, the budget used up.
ForcedExitTurn(p) ==
    /\ p \in DOMAIN tr_processes
    /\ tr_processes[p].pc = "turn"
    /\ Len(tr_processes[p].function_calls) >= TranscriptToolCalls
    /\ FollowMessage(p, ForcedExit)

\* run_process from the budget test on, with the tool calls of the response of the
\* oracle.
AnswerTurn(p, tool_calls) ==
    /\ p \in DOMAIN tr_processes
    /\ tr_processes[p].pc = "turn"
    /\ Len(tr_processes[p].function_calls) < TranscriptToolCalls
    /\ FollowMessage(p, ChatMessage("assistant", "thought", tool_calls, ""))

TranscriptNext ==
    \/ TranscriptEntry
    \/ \E p \in DOMAIN tr_processes, outcome \in ExecuteOutcomes : ExecuteSingleToolCall(p, outcome)
    \/ \E p \in DOMAIN tr_processes : ForcedExitTurn(p)
    \/ \E p \in DOMAIN tr_processes, tool_calls \in ToolCallsOfResponse : AnswerTurn(p, tool_calls)

-----------------------------------------------------------------------------
(* prepare_debug_inputs: the test cases that are debugged (debug_agent.py) *)

\* The test classes of a failure, the failing test cases of a class and the
\* max_test_cases that are followed.
MaxTestClasses == 3

MaxClassCases == 3

MaxSelected == 3

\* The k-th failing test case of test class c.
TestCase(c, k) == <<c, k>>

\* The test classes of a failure, each with at least one failing test case.
TestFailures ==
    UNION {{[c \in 1..n |-> [k \in 1..sizes[c] |-> TestCase(c, k)]] :
               sizes \in [1..n -> 1..MaxClassCases]} : n \in 1..MaxTestClasses}

\* sum(len(cs) for cs in test_cases)
RECURSIVE num_test_cases(_)
num_test_cases(test_cases) ==
    IF test_cases = <<>> THEN 0
    ELSE Len(Head(test_cases)) + num_test_cases(Tail(test_cases))

\* [tc for cs in test_cases for tc in cs]
RECURSIVE flatten(_)
flatten(test_cases) ==
    IF test_cases = <<>> THEN <<>>
    ELSE Head(test_cases) \o flatten(Tail(test_cases))

SelectStart ==
    /\ sel_classes \in TestFailures
    /\ max_test_cases \in 1..MaxSelected
    /\ sel_test_cases = <<>>
    /\ new_test_cases = <<>>
    /\ sel_at = 0
    /\ sel_pc = "start"

\* prepare_debug_inputs up to the selection: the lists of the test classes are
\* collected and counted; within the limit all test cases are kept.
CollectTestCases ==
    /\ sel_pc = "start"
    /\ sel_test_cases' = sel_classes
    /\ IF num_test_cases(sel_classes) > max_test_cases
       THEN /\ sel_pc' = "select"
            /\ sel_at' = 1
            /\ UNCHANGED new_test_cases
       ELSE /\ sel_pc' = "selected"
            /\ new_test_cases' = flatten(sel_classes)
            /\ UNCHANGED sel_at
    /\ UNCHANGED <<notSelect, sel_classes, max_test_cases>>

\* One pass of the body of "for cs in test_cases" under "while True": cs.pop()
\* raises IndexError on an empty list; the break leaves the for loop, which the
\* while loop starts again.
PopTestCase ==
    /\ sel_pc = "select"
    /\ LET cs == sel_test_cases[sel_at]
       IN  IF cs = <<>>
           THEN /\ sel_pc' = "raised"
                /\ UNCHANGED <<sel_test_cases, new_test_cases, sel_at>>
           ELSE /\ sel_test_cases' =
                      [sel_test_cases EXCEPT ![sel_at] = SubSeq(cs, 1, Len(cs) - 1)]
                /\ new_test_cases' = Append(new_test_cases, cs[Len(cs)])
                /\ sel_at' = IF Len(new_test_cases) + 1 = max_test_cases
                                \/ sel_at = Len(sel_test_cases)
                             THEN 1
                             ELSE sel_at + 1
                /\ UNCHANGED sel_pc
    /\ UNCHANGED <<notSelect, sel_classes, max_test_cases>>

SelectNext == CollectTestCases \/ PopTestCase

-----------------------------------------------------------------------------
(* DebugAgent.run: the debug states after the test cases are debugged, and the
   result report made of them (debug_agent.py, prompt.py) *)

\* The test cases of a run and the verify results of the round of a test case.
NumReportCases == 2

MaxRoundVerdicts == 2

ReportMethods == {"A.f", "A.g"}

\* DebugState(...) as DebugAgent.run creates it, with debug_rounds = 1.
NewDebugState(ps) ==
    [round_results |-> <<>>, parallel_search |-> ps, completed |-> FALSE,
     found_bug |-> FALSE, current_round |-> 1, max_rounds |-> 1, raised |-> "none"]

\* The verify results run_verify returns for the round of a test case.
RoundVerdicts ==
    UNION {[1..n -> [method_id : ReportMethods, category : {"buggy", "benign"}]] :
              n \in 1..MaxRoundVerdicts}

\* debug_process on a DebugState of one round: add_search_results and
\* add_verify_results make the RoundResult of the round, then update_round.
debug_process(debug_state, verify_results) ==
    LET rr == Append(debug_state.round_results,
                     [search_results |-> <<>>, verify_results |-> verify_results])
        u == update_round(rr, debug_state.current_round, debug_state.max_rounds,
                          debug_state.parallel_search, debug_state.completed,
                          debug_state.found_bug)
    IN  [debug_state EXCEPT !.round_results = rr,
                            !.current_round = u.current_round,
                            !.completed = u.completed,
                            !.found_bug = u.found_bug,
                            !.raised = u.raised]

\* The replacement fields of the templates of prompt.py.
SINGLE_RESULT_TEMPLATE == {"test_name", "test_code", "error_message", "debug_report"}

SUMMARIZE_USER_PROMPT == {"result_report"}

\* str.format(*args, **kwargs): every replacement field of the template is looked
\* up by its name in kwargs; a name that is not there raises KeyError.
Formatted(raised, text) == [raised |-> raised, text |-> text]

format(template, kwargs) ==
    IF \A replacement_field \in template : replacement_field \in DOMAIN kwargs
    THEN Formatted("none", [replacement_field \in template |-> kwargs[replacement_field]])
    ELSE Formatted("KeyError", <<>>)

\* get_result_report, the body of the loop for one debug state.
single_result(debug_state, test_name) ==
    LET verify_result ==
            debug_state.round_results[Len(debug_state.round_results)].verify_results[1]
        named == IF debug_state.found_bug THEN verify_result.method_id
                 ELSE "No suspicious method found for this failed test case"
    IN  format(SINGLE_RESULT_TEMPLATE,
               [test_name |-> test_name, test_code |-> "test_code",
                error_message |-> "error_message", method_id |-> named,
                explaination |-> "explaination"])

\* get_result_report: the entries of the debug states in order, then the prompt
\* around them; SUMMARIZE_USER_PROMPT.format is called with one positional argument.
get_result_report(debug_states) ==
    LET debug_results == [i \in 1..Len(debug_states) |-> single_result(debug_states[i], i)]
    IN  IF \E i \in 1..Len(debug_states) : debug_results[i].raised # "none"
        THEN Formatted("KeyError", <<>>)
        ELSE IF format(SUMMARIZE_USER_PROMPT, <<>>).raised # "none"
        THEN Formatted("KeyError", <<>>)
        ELSE Formatted("none", debug_results)

\* DebugAgent.run up to the debugging: one DebugState per debug input.
ReportStart ==
    /\ fr_num_process \in 1..2
    /\ fr_parallel \in BOOLEAN
    /\ fr_states = [i \in 1..NumReportCases |-> NewDebugState(fr_parallel)]
    /\ fr_results = <<>>
    /\ fr_report = <<>>
    /\ fr_pc = "run"

\* debug_process of the next test case. run_singleprocess calls it on the debug
\* state of the agent, and its exception leaves run; run_multiprocess hands a copy
\* of the debug state to a worker of the pool, collects the returned state or None
\* and run drops the list.
DebugNextTestCase(verify_results) ==
    /\ fr_pc = "run"
    /\ LET i == Len(fr_results) + 1
           debugged == debug_process(fr_states[i], verify_results)
       IN  /\ fr_results' = Append(fr_results, debugged)
           /\ fr_states' = IF fr_num_process > 1 THEN fr_states
                           ELSE [fr_states EXCEPT ![i] = debugged]
           /\ fr_pc' = IF fr_num_process = 1 /\ debugged.raised # "none" THEN "raised"
                       ELSE IF i = NumReportCases THEN "debugged"
                       ELSE "run"
    /\ UNCHANGED <<notReport, fr_num_process, fr_parallel, fr_report>>

\* combine_test_case_results up to the oracle loop: get_result_report on the debug
\* states of the agent.
GetResultReport ==
    /\ fr_pc = "debugged"
    /\ LET report == get_result_report(fr_states)
       IN  IF report.raised # "none"
           THEN fr_pc' = "raised" /\ UNCHANGED fr_report
           ELSE fr_pc' = "reported" /\ fr_report' = <<report.text>>
    /\ UNCHANGED <<notReport, fr_num_process, fr_parallel, fr_states, fr_results>>

ReportNext ==
    \/ \E verify_results \in RoundVerdicts : DebugNextTestCase(verify_results)
    \/ GetResultReport

-----------------------------------------------------------------------------
(* nominate_suspicious_method: execute_function and the record run_process makes
   of it (pingfl_agent.py, graph_searcher.py) *)

\* The tool calls of a lineage that are followed (max_tool_calls), with
\* max_verify_rounds of 2 or more.
MaxNominateCalls == 3

\* What VerifyAgent.run comes to: the report, an exception with a message
\* attribute, an exception without one.
VerifyRunOutcomes == {"report", "raises_with_message", "raises"}

\* The tool call of a response that nominates method_id.
NominateCall(call_id, nominated_id) ==
    [id |-> call_id, name |-> "nominate_suspicious_method",
     arguments |-> [method_id |-> nominated_id]]

\* What execute_function comes to: the text for the branch or the exception that
\* leaves it, the calls of VerifyAgent.run and the verify rounds of the process.
Executed(raised, response, verify_runs, verify_rounds) ==
    [raised |-> raised, response |-> response, verify_runs |-> verify_runs,
     verify_rounds |-> verify_rounds]

\* Mutant: the verify round is counted when the method is nominated_id, before it is
\* looked up.
execute_function_counting_first(searcher, seed, tool_call, verify_rounds, verify_outcome) ==
    LET nominated_id == tool_call.arguments.method_id
    IN  IF ~dict_has(searcher.method_id_map, nominated_id)
        THEN Executed("none", get_method_code_for_id(searcher, nominated_id, seed), 0,
                      verify_rounds + 1)
        ELSE CASE verify_outcome = "report" ->
                      Executed("none", "verification report", 1, verify_rounds + 1)
               [] verify_outcome = "raises_with_message" ->
                      Executed("none", "e.message", 1, verify_rounds + 1)
               [] verify_outcome = "raises" ->
                      Executed("AttributeError", "", 1, verify_rounds + 1)

\* execute_function for nominate_suspicious_method: get_method, and for None the
\* answer of get_method_code_for_id; else VerifyAgent.run under try/except, and
\* the verify round counted after a run that returned.
execute_function(searcher, seed, tool_call, verify_rounds, verify_outcome) ==
    LET nominated_id == tool_call.arguments.method_id
    IN  IF ~dict_has(searcher.method_id_map, nominated_id)
        THEN Executed("none", get_method_code_for_id(searcher, nominated_id, seed), 0,
                      verify_rounds)
        ELSE CASE verify_outcome = "report" ->
                      Executed("none", "verification report", 1, verify_rounds + 1)
               [] verify_outcome = "raises_with_message" ->
                      Executed("none", "e.message", 1, verify_rounds)
               [] verify_outcome = "raises" ->
                      Executed("AttributeError", "", 1, verify_rounds)

\* The ProcessState of a branch and where its run_process stands.
NominatingBranch(pc, memory, function_calls, verify_rounds) ==
    [pc |-> pc, memory |-> memory, function_calls |-> function_calls,
     verify_rounds |-> verify_rounds]

\* PingflAgent with its searcher, and the entry process after init_memory.
NominateStart ==
    /\ nm_searcher \in {RepoSearcher(nodes) : nodes \in SearchGraphs}
    /\ nm_seed \in HashSeeds
    /\ nm_process = NominatingBranch("turn", init_memory(Transcript("queued", NewMemory, <<>>, <<>>),
                                               <<>>).memory,
                           <<"get_covered_classes">>, 0)
    /\ nm_verified = 0

\* process_function_calls for a response with one tool call, which nominates a
\* method: create_process copies memory and function_calls, the verify rounds of
\* the child are 0; then run_process of the child with the call: execute_function
\* under try/except, the function call recorded, the message of the call and the
\* message of its result added to the memory.
NominateTurn(call_id, nominated_id, verify_outcome) ==
    /\ nm_process.pc = "turn"
    /\ Len(nm_process.function_calls) < MaxNominateCalls
    /\ LET tool_call == NominateCall(call_id, nominated_id)
           executed == execute_function(nm_searcher, nm_seed, tool_call, 0, verify_outcome)
           tool_call_result == IF executed.raised = "none" THEN executed.response
                               ELSE retry_feedback
       IN  /\ nm_process' =
                 NominatingBranch("turn",
                        nm_process.memory \o
                            << ChatMessage("assistant", "thought", <<tool_call>>, ""),
                               get_tool_result_msg(tool_call, tool_call_result) >>,
                        Append(nm_process.function_calls,
                               IF executed.raised = "none" THEN tool_call.name ELSE "retry"),
                        executed.verify_rounds)
           /\ nm_verified' = nm_verified + executed.verify_runs
    /\ UNCHANGED <<notNominate, nm_searcher, nm_seed>>

\* The forced exit_debugging turn of a branch at its budget, or the oracle's own.
NominateExit ==
    /\ nm_process.pc = "turn"
    /\ nm_process' =
          [nm_process EXCEPT
              !.pc = "done",
              !.memory = @ \o << TextMessage("user", "FAULT_LOCALIZATION_PROMPT_AUTOFL"),
                                 TextMessage("assistant", "answer") >>]
    /\ UNCHANGED <<notNominate, nm_searcher, nm_seed, nm_verified>>

\* The method IDs the oracle nominates: IDs that are not in the graph, and the ID
\* of the first method of the graph.
NominatedIds ==
    FalseIds \cup {method_id(nm_searcher.nodes[i]) : i \in 1..Min2(1, Len(nm_searcher.nodes))}

NominateNext ==
    \/ \E call_id \in CallIds, nominated_id \in NominatedIds, verify_outcome \in VerifyRunOutcomes :
          NominateTurn(call_id, nominated_id, verify_outcome)
    \/ NominateExit

-----------------------------------------------------------------------------
(* Specifications: one per subsystem, the others idle *)

RoundIdle ==
    /\ parallel_search = FALSE
    /\ max_rounds = DefaultMaxRounds
    /\ FreshDebugState
    /\ files = NoFiles
    /\ first_ret = [n \in Rounds |-> [search |-> NotWritten, verify |-> NotWritten]]
    /\ agent_runs = [n \in Rounds |-> [search |-> 0, verify |-> 0]]
    /\ crashes = 0

FanIdle ==
    /\ hyper = Hyper(1, 1, 1, 1, 1)
    /\ cur_paths = 1
    /\ process_counter = 0
    /\ processes = <<>>
    /\ futures = {}
    /\ threads = <<>>
    /\ run_state = "init"

EditIdle ==
    /\ e_lines = <<>>
    /\ e_interval = <<0, 0>>
    /\ e_command = NoCommand
    /\ e_result = NotEdited
    /\ e_file = Absent
    /\ epc = "idle"

VerifyIdle == VerifyStart

GraphIdle ==
    /\ src_tags = <<>>
    /\ tag_objs = <<>>
    /\ all_graphs = <<>>
    /\ combined_graph = EmptyGraph
    /\ gpc = "idle"

PoolIdle ==
    /\ num_process = 1
    /\ case_status = <<>>
    /\ da_results = <<>>
    /\ da_pc = "idle"

PlayIdle ==
    /\ play_nodes = <<>>
    /\ nominated = <<>>
    /\ verify_inputs = <<>>
    /\ play_status = <<>>
    /\ play_dirs = {}
    /\ play_pc = "idle"

ToolIdle ==
    /\ tool_agent = "PingflAgent"
    /\ branches = <<>>
    /\ search_run = "idle"

PromptIdle ==
    /\ rp_loop = "none"
    /\ rp_messages = <<>>
    /\ rp_malformed = 0
    /\ rp_pc = "idle"

CopyIdle ==
    /\ cp_heap = <<>>
    /\ cp_processes = <<>>
    /\ cp_counter = 0

PollIdle ==
    /\ pl_futures = <<>>
    /\ pl_branches = <<>>
    /\ pl_counter = 0
    /\ pl_poll = 0
    /\ pl_run = "idle"

LockIdle ==
    /\ lk_holder = -1
    /\ lk_pc = <<>>
    /\ lk_book = <<>>
    /\ lk_log = {}

ContainIdle ==
    /\ cs_methods = <<>>
    /\ cs_seed = "seed_a"
    /\ cs_call = [string_content |-> <<>>, max_count |-> 0]
    /\ cs_answer = [kind |-> "none", listed |-> <<>>, suffix |-> [present |-> FALSE, more |-> 0]]

DynIdle ==
    /\ dg_inst = <<>>
    /\ dg_built = <<>>
    /\ dg_descent = <<>>

StaticIdle ==
    /\ st_tags = <<>>
    /\ st_built = <<>>

TranscriptIdle ==
    /\ search_json = <<>>
    /\ tr_processes = <<>>
    /\ tr_counter = 0

SelectIdle ==
    /\ sel_classes = <<>>
    /\ max_test_cases = 1
    /\ sel_test_cases = <<>>
    /\ new_test_cases = <<>>
    /\ sel_at = 0
    /\ sel_pc = "start"

ReportIdle ==
    /\ fr_num_process = 1
    /\ fr_parallel = FALSE
    /\ fr_states = <<>>
    /\ fr_results = <<>>
    /\ fr_report = <<>>
    /\ fr_pc = "run"

NominateIdle ==
    /\ nm_searcher = NoSearcher
    /\ nm_seed = "seed_a"
    /\ nm_process = <<>>
    /\ nm_verified = 0

RoundInit == RoundStart /\ FanIdle /\ EditIdle /\ VerifyIdle /\ GraphIdle /\ SearchIdle /\ PoolIdle /\ PlayIdle /\ ToolIdle /\ PromptIdle /\ CopyIdle /\ PollIdle /\ LockIdle /\ ContainIdle /\ DynIdle /\ StaticIdle /\ TranscriptIdle /\ SelectIdle /\ ReportIdle /\ NominateIdle

SpecRound == RoundInit /\ [][RoundNext]_vars

FanInit == FanStart /\ RoundIdle /\ EditIdle /\ VerifyIdle /\ GraphIdle /\ SearchIdle /\ PoolIdle /\ PlayIdle /\ ToolIdle /\ PromptIdle /\ CopyIdle /\ PollIdle /\ LockIdle /\ ContainIdle /\ DynIdle /\ StaticIdle /\ TranscriptIdle /\ SelectIdle /\ ReportIdle /\ NominateIdle

SpecFan == FanInit /\ [][FanNext]_vars

FanLiveInit == FanLiveStart /\ RoundIdle /\ EditIdle /\ VerifyIdle /\ GraphIdle /\ SearchIdle /\ PoolIdle /\ PlayIdle /\ ToolIdle /\ PromptIdle /\ CopyIdle /\ PollIdle /\ LockIdle /\ ContainIdle /\ DynIdle /\ StaticIdle /\ TranscriptIdle /\ SelectIdle /\ ReportIdle /\ NominateIdle

SpecFanLive == FanLiveInit /\ [][FanLiveNext]_vars /\ FanFairness

EditInit == EditStart /\ RoundIdle /\ FanIdle /\ VerifyIdle /\ GraphIdle /\ SearchIdle /\ PoolIdle /\ PlayIdle /\ ToolIdle /\ PromptIdle /\ CopyIdle /\ PollIdle /\ LockIdle /\ ContainIdle /\ DynIdle /\ StaticIdle /\ TranscriptIdle /\ SelectIdle /\ ReportIdle /\ NominateIdle

SpecEdit == EditInit /\ [][EditNext]_vars

VerifyInit == VerifyStart /\ RoundIdle /\ FanIdle /\ EditIdle /\ GraphIdle /\ SearchIdle /\ PoolIdle /\ PlayIdle /\ ToolIdle /\ PromptIdle /\ CopyIdle /\ PollIdle /\ LockIdle /\ ContainIdle /\ DynIdle /\ StaticIdle /\ TranscriptIdle /\ SelectIdle /\ ReportIdle /\ NominateIdle

SpecVerify == VerifyInit /\ [][VerifyNext]_vars

GraphInit == GraphStart /\ RoundIdle /\ FanIdle /\ EditIdle /\ VerifyIdle /\ SearchIdle /\ PoolIdle /\ PlayIdle /\ ToolIdle /\ PromptIdle /\ CopyIdle /\ PollIdle /\ LockIdle /\ ContainIdle /\ DynIdle /\ StaticIdle /\ TranscriptIdle /\ SelectIdle /\ ReportIdle /\ NominateIdle

SpecGraph == GraphInit /\ [][GraphNext]_vars

AllIdle == RoundIdle /\ FanIdle /\ EditIdle /\ VerifyIdle /\ GraphIdle

IdsInit == IdsStart /\ AllIdle /\ PoolIdle /\ PlayIdle /\ ToolIdle /\ PromptIdle /\ CopyIdle /\ PollIdle /\ LockIdle /\ ContainIdle /\ DynIdle /\ StaticIdle /\ TranscriptIdle /\ SelectIdle /\ ReportIdle /\ NominateIdle

SpecIds == IdsInit /\ [][IdsNext]_vars

SearchInit == SearchStart /\ AllIdle /\ PoolIdle /\ PlayIdle /\ ToolIdle /\ PromptIdle /\ CopyIdle /\ PollIdle /\ LockIdle /\ ContainIdle /\ DynIdle /\ StaticIdle /\ TranscriptIdle /\ SelectIdle /\ ReportIdle /\ NominateIdle

SpecSearch == SearchInit /\ [][SearchNext]_vars

PoolInit == PoolStart /\ AllIdle /\ SearchIdle /\ PlayIdle /\ ToolIdle /\ PromptIdle /\ CopyIdle /\ PollIdle /\ LockIdle /\ ContainIdle /\ DynIdle /\ StaticIdle /\ TranscriptIdle /\ SelectIdle /\ ReportIdle /\ NominateIdle

SpecPool == PoolInit /\ [][PoolNext]_vars

PlayInit == PlayStart /\ AllIdle /\ SearchIdle /\ PoolIdle /\ ToolIdle /\ PromptIdle /\ CopyIdle /\ PollIdle /\ LockIdle /\ ContainIdle /\ DynIdle /\ StaticIdle /\ TranscriptIdle /\ SelectIdle /\ ReportIdle /\ NominateIdle

SpecPlay == PlayInit /\ [][PlayNext]_vars

ToolInit == ToolStart /\ AllIdle /\ SearchIdle /\ PoolIdle /\ PlayIdle /\ PromptIdle /\ CopyIdle /\ PollIdle /\ LockIdle /\ ContainIdle /\ DynIdle /\ StaticIdle /\ TranscriptIdle /\ SelectIdle /\ ReportIdle /\ NominateIdle

SpecTool == ToolInit /\ [][ToolNext]_vars

PromptInit == RepromptStart /\ AllIdle /\ SearchIdle /\ PoolIdle /\ PlayIdle /\ ToolIdle /\ CopyIdle /\ PollIdle /\ LockIdle /\ ContainIdle /\ DynIdle /\ StaticIdle /\ TranscriptIdle /\ SelectIdle /\ ReportIdle /\ NominateIdle

SpecPrompt == PromptInit /\ [][PromptNext]_vars

CopyInit == CopyStart /\ AllIdle /\ SearchIdle /\ PoolIdle /\ PlayIdle /\ ToolIdle /\ PromptIdle /\ PollIdle /\ LockIdle /\ ContainIdle /\ DynIdle /\ StaticIdle /\ TranscriptIdle /\ SelectIdle /\ ReportIdle /\ NominateIdle

SpecCopy == CopyInit /\ [][CopyNext]_vars

PollInit == PollStart /\ AllIdle /\ SearchIdle /\ PoolIdle /\ PlayIdle /\ ToolIdle /\ PromptIdle /\ CopyIdle /\ LockIdle /\ ContainIdle /\ DynIdle /\ StaticIdle /\ TranscriptIdle /\ SelectIdle /\ ReportIdle /\ NominateIdle

SpecPoll == PollInit /\ [][PollNext]_vars

LockInit == LockStart /\ AllIdle /\ SearchIdle /\ PoolIdle /\ PlayIdle /\ ToolIdle /\ PromptIdle /\ CopyIdle /\ PollIdle /\ ContainIdle /\ DynIdle /\ StaticIdle /\ TranscriptIdle /\ SelectIdle /\ ReportIdle /\ NominateIdle

SpecLock == LockInit /\ [][LockNext]_vars

ContainInit == ContainStart /\ AllIdle /\ SearchIdle /\ PoolIdle /\ PlayIdle /\ ToolIdle /\ PromptIdle /\ CopyIdle /\ PollIdle /\ LockIdle /\ DynIdle /\ StaticIdle /\ TranscriptIdle /\ SelectIdle /\ ReportIdle /\ NominateIdle

SpecContain == ContainInit /\ [][ContainNext]_vars

DynInit == DynStart /\ AllIdle /\ SearchIdle /\ PoolIdle /\ PlayIdle /\ ToolIdle /\ PromptIdle /\ CopyIdle /\ PollIdle /\ LockIdle /\ ContainIdle /\ StaticIdle /\ TranscriptIdle /\ SelectIdle /\ ReportIdle /\ NominateIdle

SpecDyn == DynInit /\ [][DynNext]_vars

StaticInit == StaticStart /\ AllIdle /\ SearchIdle /\ PoolIdle /\ PlayIdle /\ ToolIdle /\ PromptIdle /\ CopyIdle /\ PollIdle /\ LockIdle /\ ContainIdle /\ DynIdle /\ TranscriptIdle /\ SelectIdle /\ ReportIdle /\ NominateIdle

SpecStatic == StaticInit /\ [][StaticNext]_vars

TranscriptInit == TranscriptStart /\ AllIdle /\ SearchIdle /\ PoolIdle /\ PlayIdle /\ ToolIdle /\ PromptIdle /\ CopyIdle /\ PollIdle /\ LockIdle /\ ContainIdle /\ DynIdle /\ StaticIdle /\ SelectIdle /\ ReportIdle /\ NominateIdle

SpecTranscript == TranscriptInit /\ [][TranscriptNext]_vars

SelectInit == SelectStart /\ AllIdle /\ SearchIdle /\ PoolIdle /\ PlayIdle /\ ToolIdle /\ PromptIdle /\ CopyIdle /\ PollIdle /\ LockIdle /\ ContainIdle /\ DynIdle /\ StaticIdle /\ TranscriptIdle /\ ReportIdle /\ NominateIdle

SpecSelect == SelectInit /\ [][SelectNext]_vars

ReportInit == ReportStart /\ AllIdle /\ SearchIdle /\ PoolIdle /\ PlayIdle /\ ToolIdle /\ PromptIdle /\ CopyIdle /\ PollIdle /\ LockIdle /\ ContainIdle /\ DynIdle /\ StaticIdle /\ TranscriptIdle /\ SelectIdle /\ NominateIdle

SpecReport == ReportInit /\ [][ReportNext]_vars

NominateInit == NominateStart /\ AllIdle /\ SearchIdle /\ PoolIdle /\ PlayIdle /\ ToolIdle /\ PromptIdle /\ CopyIdle /\ PollIdle /\ LockIdle /\ ContainIdle /\ DynIdle /\ StaticIdle /\ TranscriptIdle /\ SelectIdle /\ ReportIdle

SpecNominate == NominateInit /\ [][NominateNext]_vars

-----------------------------------------------------------------------------
(* Claims about the round machine *)

AllBenign(verify_results) ==
    \A i \in 1..Len(verify_results) : verify_results[i].category = "benign"

\* C1: with max_rounds = 3 and every verdict of rounds 1 and 2 benign,
\* update_round never fails, the state is not completed while current_round is
\* 1, 2 or 3, and once round 3 is resolved it is completed with found_bug = FALSE.
C1_BenignRoundsRunToCompletion ==
    (/\ max_rounds = 3
     /\ \A n \in 1..Len(round_results) :
            n <= 2 => AllBenign(round_results[n].verify_results))
    => /\ derr # "AttributeError"
       /\ current_round \in 1..3 => ~completed
       /\ current_round = 4 => completed /\ ~found_bug

\* C2: once a round whose verify results contain a buggy verdict has been resolved
\* by update_round, the state is completed with found_bug = TRUE and no further
\* round has been started.
C2_BuggyVerdictStops ==
    \A n \in 1..Len(round_results) :
        (n < current_round /\ HasBuggy(round_results[n].verify_results))
        => completed /\ found_bug /\ Len(round_results) = n

\* C5: a result list returned from an existing results file equals the list returned
\* by the run that wrote the file, and once the file of a round exists the agent of
\* that round is not invoked again, across crashes and restarts.
C5_CachedRoundIsReplayed ==
    /\ last_ret.cached =>
           /\ last_ret.kind = "search" =>
                  /\ first_ret[last_ret.round].search.exists
                  /\ last_ret.value = first_ret[last_ret.round].search.value
           /\ last_ret.kind = "verify" =>
                  /\ first_ret[last_ret.round].verify.exists
                  /\ last_ret.value = first_ret[last_ret.round].verify.value
    /\ \A n \in Rounds :
           /\ files[n].search.exists =>
                  agent_runs[n].search = first_ret[n].search.runs
           /\ files[n].verify.exists =>
                  agent_runs[n].verify = first_ret[n].verify.runs

\* C5 witness: after a crash between the two writes of round 1, the merged search
\* results came from the file and the verify agent has just run afresh.
C5_Witness ==
    /\ crashes >= 1
    /\ dpc = "verify_write"
    /\ last_ret.cached /\ last_ret.kind = "search"
    /\ Len(last_ret.value) = 1
    /\ Len(last_ret.value[1].error_analysis) = 3
    /\ agent_runs[current_round].search = 1

-----------------------------------------------------------------------------
(* Claims about the process tree of PingflAgent *)

\* The parents whose process_function_calls call is in progress.
Forking == {p \in DOMAIN threads : threads[p].pc = "forking"}

\* The entries of the process map that are not such a parent.
Paths == DOMAIN processes \ Forking

\* C3 as stated: the number of ProcessState entries in the process map never
\* exceeds max_search_paths at any instant.
C3_MapWithinBudget ==
    Cardinality(DOMAIN processes) <= hyper.max_search_paths

\* C3, amended: not counting the parents that are being replaced by their children,
\* the number of ProcessState entries in the process map never exceeds
\* max_search_paths; the entries and the children still to be created add up to
\* cur_paths, which stays within the budget.
C3_PathsWithinBudget ==
    /\ Cardinality(Paths) <= hyper.max_search_paths
    /\ cur_paths <= hyper.max_search_paths
    /\ \A p \in Forking :
           Cardinality(Paths) + (threads[p].width - threads[p].created) <= cur_paths

\* C3 witness: a turn asking for several tool calls has created all its children,
\* the budget is used up and the parent is still in the map.
C3_Witness ==
    \E p \in Forking :
        /\ threads[p].width >= 2
        /\ threads[p].created = threads[p].width
        /\ p \in DOMAIN processes
        /\ Cardinality(Paths) = hyper.max_search_paths
        /\ Cardinality(DOMAIN processes) > hyper.max_search_paths

-----------------------------------------------------------------------------
(* Claims about edit commands *)

\* The edit command applied is in the SEARCH/REPLACE format and its search text
\* occurs in the context window of the method.
SearchOccurs ==
    /\ e_command.shape = "wellformed"
    /\ IsIn(e_command.search, context_window(TextOf(e_lines), e_interval))

\* C6: when the search text occurs in the context window, the edit returns, the
\* lines before and after the window are unchanged, and the returned extra-line
\* count is the difference in line count between the returned content and the
\* original.
C6_EditKeepsLinesAndCountsExtra ==
    (epc = "applied" /\ SearchOccurs) =>
        LET old == splitlines(TextOf(e_lines))
            new == splitlines(e_result.content)
            start_line == Max2(e_interval[1] - WindowMargin, 0)
            end_line == Min2(e_interval[2] + WindowMargin, Len(old))
        IN  /\ e_result.raised = "none"
            /\ e_result.extra_lines = Len(new) - Len(old)
            /\ Slice(new, 0, start_line) = Slice(old, 0, start_line)
            /\ Slice(new, end_line + e_result.extra_lines, Len(new))
                   = Slice(old, end_line, Len(old))

\* C8: a search text with two or more occurrences in the context window raises
\* EditCommandContentError and the content is not edited; an edit command that is not
\* in the SEARCH/REPLACE format raises EditCommandFormatError.
C8_AmbiguousOrMalformedEditRaises ==
    epc = "applied" =>
        /\ (/\ e_command.shape = "wellformed"
            /\ Count(context_window(TextOf(e_lines), e_interval), e_command.search) >= 2)
           => /\ e_result.raised = "EditCommandContentError"
              /\ e_result.content = TextOf(e_lines)
        /\ e_command.shape # "wellformed" => e_result.raised = "EditCommandFormatError"

-----------------------------------------------------------------------------
(* Claims about VerifyAgent.run_process *)

\* C4: when run_process has been left, by returning or by raising, the playground
\* directory does not exist.
C4_PlaygroundRemovedOnEveryExit ==
    vpc \in {"returned", "raised"} => ~ws.exists

\* The edit command about to be applied has a search text that does not occur in
\* the context window of the method.
SearchAbsent ==
    /\ vpc = "edit"
    /\ v_cmd.shape = "wellformed"
    /\ ~IsIn(v_cmd.search, context_window(ws.bak.text, VerifyInterval))

\* C7: an edit whose search text does not occur in the context window raises
\* EditCommandContentError; the Java file of the playground is not written, the test
\* is not run, and the message of the error is appended to the transcript of the
\* branch, which goes on with the next oracle turn.
C7_AbsentSearchIsFedBack ==
    [][SearchAbsent =>
          /\ apply_edit_commands_search_replace(
                 Render(v_cmd), ws.bak.text, VerifyInterval).raised
                 = "EditCommandContentError"
          /\ ws' = ws
          /\ tests_run' = tests_run
          /\ v_transcript' =
                 Append(v_transcript, Message("user", "EditCommandContentError"))
          /\ vpc' = "oracle"
          /\ verr' = "none"]_vars

\* C7 witness: the content error of an edit has just been fed back; the playground
\* holds the untouched .bak file and no Java file, and no test has been run.
C7_Witness ==
    /\ vpc = "oracle"
    /\ retry_round
    /\ v_transcript[Len(v_transcript)] = Message("user", "EditCommandContentError")
    /\ v_cmd.search = <<"z">>
    /\ ws.exists /\ ~ws.java.exists
    /\ ws.bak = Present(TextOf(VerifyLines))
    /\ tests_run = 0

-----------------------------------------------------------------------------
(* Claims about the code graph *)

\* The edges of a graph that define the node n as a function.
InboundDefines(G, n) ==
    {i \in 1..Len(G.edges) : G.edges[i].v = n /\ G.edges[i].rel = "defines_function"}

\* A function element of the parsed file that no class, interface or enum element
\* contains.
Uncontained ==
    \E i \in 1..Len(src_tags) :
        /\ src_tags[i].category = "function"
        /\ ~\E j \in 1..Len(src_tags) :
               /\ src_tags[j].category \in ClassLike
               /\ src_tags[j].line[1] <= src_tags[i].line[1]
               /\ src_tags[i].line[2] <= src_tags[j].line[2]

\* C9: in every graph create_repo_graph has returned, every node of category
\* function has exactly one inbound defines_function edge; and when a function
\* element has no containing class, interface or enum, no graph is returned.
C9_FunctionNodesHaveOneDefiner ==
    /\ \A t \in 1..Len(all_graphs) : \A n \in Range(all_graphs[t].nodes) :
           tag_objs[n].category = "function"
               => Cardinality(InboundDefines(all_graphs[t], n)) = 1
    /\ Uncontained => all_graphs = <<>>

\* The test case an object was parsed for.
TestOf(o) == o \div Obj(1, 0)

\* C10: Tags parsed for two test cases with the same (rel_fname, line, name, kind,
\* category) are equal, whatever their other fields are, and the combined graph
\* holds one node for them.
C10_StructuralIdentityIsOneNode ==
    /\ \A a, b \in DOMAIN tag_objs :
           (TestOf(a) # TestOf(b) /\ Tag_hash(tag_objs[a]) = Tag_hash(tag_objs[b]))
               => Tag_eq(tag_objs[a], tag_objs[b])
    /\ gpc = "combined" =>
           \A a, b \in Range(combined_graph.nodes) :
               (TestOf(a) # TestOf(b) /\ Tag_hash(tag_objs[a]) = Tag_hash(tag_objs[b]))
                   => a = b

-----------------------------------------------------------------------------
(* Claims about Method IDs and RepoSearcher *)

\* C11: in every graph create_repo_graph has returned, two distinct function nodes
\* have different Method IDs, the method-id map of RepoSearcher has one entry per
\* function node, and get_method of the Method ID of a function node is that node.
C11_MethodIdsAreUniqueInAGraph ==
    \A t \in 1..Len(all_graphs) :
        LET fns == function_nodes(all_graphs[t], tag_objs)
            id_map == method_id_map_of(all_graphs[t], tag_objs)
        IN  /\ \A i, j \in 1..Len(fns) :
                   i # j => method_id(tag_objs[fns[i]]) # method_id(tag_objs[fns[j]])
            /\ Len(id_map) = Len(fns)
            /\ \A i \in 1..Len(fns) :
                   get_method(id_map, method_id(tag_objs[fns[i]])) = fns[i]

\* The dotted names of a function element: the segments of its package (one empty
\* segment for the default package), its outer class, its inner classes and its name.
DottedNames(tag) ==
    split(pkg_str(tag), ".")
    \o [k \in 1..(Len(tag.inner_class) + 2) |->
           <<(<<tag.outer_class>> \o tag.inner_class \o <<tag.name>>)[k]>>]

ClassChain(tag) == <<tag.outer_class>> \o tag.inner_class

IdsRendered == s_answer.kind = "method_id"

\* C12 as stated: the Method ID of a function element determines its package, its
\* class chain, its name and its line range, so that a parse can give them back: two
\* elements with the same Method ID have all four in common.
C12_MethodIdDeterminesIdentity ==
    IdsRendered =>
        \A i, j \in 1..Len(s_answer.ids) :
            s_answer.ids[i] = s_answer.ids[j] =>
                /\ s_answer.methods[i].pkg_name = s_answer.methods[j].pkg_name
                /\ ClassChain(s_answer.methods[i]) = ClassChain(s_answer.methods[j])
                /\ s_answer.methods[i].name = s_answer.methods[j].name
                /\ s_answer.methods[i].line = s_answer.methods[j].line

\* C12, amended: the part of a Method ID before "#" splits at "." into the segments
\* of the package followed by the class chain and the name, the last of them (the
\* leaf name get_possible_method_ids extracts) is the name of the element, and two
\* elements with the same Method ID have the same dotted names and the same line
\* range; where the package ends and the class chain begins is not in the ID.
C12_MethodIdGivesBackDottedNamesAndLines ==
    IdsRendered =>
        /\ \A i \in 1..Len(s_answer.ids) :
               /\ name_strs(s_answer.ids[i]) = DottedNames(s_answer.methods[i])
               /\ false_method_name(s_answer.ids[i]) = <<s_answer.methods[i].name>>
               /\ Len(split(s_answer.ids[i], "#")) = 2
               /\ Len(split(split(s_answer.ids[i], "#")[2], "-")) = 2
        /\ \A i, j \in 1..Len(s_answer.ids) :
               s_answer.ids[i] = s_answer.ids[j] =>
                   /\ DottedNames(s_answer.methods[i]) = DottedNames(s_answer.methods[j])
                   /\ s_answer.methods[i].line = s_answer.methods[j].line

\* C12 witness: the Method IDs of a method of the inner class A$B$1 of p.q.A on
\* lines 98-102 and of a constructor in the default package have been rendered.
C12_Witness ==
    /\ IdsRendered
    /\ s_answer.methods[1].inner_class = <<"B", "1">>
    /\ s_answer.methods[1].pkg_name = <<"p", "q">>
    /\ s_answer.methods[1].line = <<98, 102>>
    /\ s_answer.ids[1] = <<"p", ".", "q", ".", "A", ".", "B", ".", "1", ".", "m", "#",
                           "9", "8", "-", "1", "0", "2">>
    /\ s_answer.methods[2].pkg_name = <<>>
    /\ s_answer.methods[2].name = s_answer.methods[2].outer_class

CoveredLookup ==
    s_call.op \in {"get_covered_method_ids_for_class",
                   "NewRepoSearcher.get_covered_method_ids_for_class"}

\* The method_pos texts a method dict lists.
ListedPositions(method_dict) ==
    UNION {Range(method_dict[i].value) : i \in 1..Len(method_dict)}

\* C13: when the class name asked for is a key of method_dict, the covered-method
\* lookup of RepoSearcher and of NewRepoSearcher answers with methods filed under
\* that key only and without the fuzzy match; the fuzzy match is made only when
\* the class name is not a key.
C13_ExactKeyShadowsFuzzyMatch ==
    CoveredLookup =>
        /\ dict_has(repo_searcher.method_dict, s_call.arg) =>
               /\ s_answer.kind = "method_dict"
               /\ ~s_answer.fuzzy
               /\ Range(s_answer.methods)
                      \subseteq Range(dict_get(repo_searcher.method_dict, s_call.arg))
               /\ ListedPositions(s_answer.ids)
                      \subseteq {method_pos(filed) :
                                    filed \in Range(dict_get(repo_searcher.method_dict,
                                                             s_call.arg))}
        /\ s_answer.fuzzy => ~dict_has(repo_searcher.method_dict, s_call.arg)

\* C13 witness: NewRepoSearcher was asked for a class name that is a key and also
\* the end of another key with a covered method, and has listed a method.
C13_Witness ==
    /\ s_call.op = "NewRepoSearcher.get_covered_method_ids_for_class"
    /\ dict_has(repo_searcher.method_dict, s_call.arg)
    /\ s_answer.methods # <<>>
    /\ \E other \in Range(get_possible_methods(repo_searcher, s_call.arg, <<>>, TRUE)) :
           other \notin Range(dict_get(repo_searcher.method_dict, s_call.arg))

\* The covered methods of the graph whose name is the leaf name of id.
CoveredWithLeafName(id) ==
    {method_node \in Range(s_nodes) :
        method_node.is_covered /\ <<method_node.name>> = false_method_name(id)}

\* What C14 says of the latest call, when it is one of ops and its ID is missing.
SuggestsForMissingId(ops) ==
    (s_call.op \in ops /\ ~dict_has(repo_searcher.method_id_map, s_call.arg)) =>
        /\ s_answer.kind \notin {"raised IndexError", "raised MethodIDNotFoundError"}
        /\ CoveredWithLeafName(s_call.arg) # {} =>
               s_answer.kind = "suggestions" /\ s_answer.ids # <<>>
        /\ s_answer.kind = "suggestions" =>
               /\ \A i \in 1..Len(s_answer.ids) :
                      \E method_node \in CoveredWithLeafName(s_call.arg) :
                          method_id(method_node) = s_answer.ids[i]
               /\ Len(s_answer.ids) <= 5

C15_SameCallSameSuggestions ==
    s_call.op = "get_method_code_for_id" =>
        /\ s_prev.call = s_call => s_prev.answer = s_answer
        /\ s_answer.kind = "suggestions" =>
               \A i, j \in 1..Len(s_answer.ids) :
                   i < j => ratio_geq(compute_similarity(s_call.arg, s_answer.ids[i]),
                                      compute_similarity(s_call.arg, s_answer.ids[j]))

\* C16: once process.edit_count or process.retry_count has reached the bound,
\* run_process has left the edit loop: it neither calls the oracle for another
\* edit nor applies one.
C16_EditLoopStopsAtTheBounds ==
    (edit_count >= max_edit_times \/ retry_count >= max_edit_times) =>
        vpc \notin {"oracle", "edit"}

\* C17: when DebugAgent has run the test cases, in the pool or one after the
\* other, every test case has been debugged and has its entry in the results: the
\* DebugState of a test case that returned, None for one that raised.
C17_EveryTestCaseIsDebugged ==
    da_pc \in {"returned", "raised"} =>
        /\ \A i \in DebugCases : case_status[i] \in ProcessOutcomes
        /\ da_results = collect(case_status)

\* C18: no two verifications that are in flight at the same time have the same
\* playground directory.
C18_PlaygroundsAreNotShared ==
    \A i, j \in 1..Len(play_status) :
        (i # j /\ InFlight(i) /\ InFlight(j)) =>
            playground_dir(verify_inputs[i].method) # playground_dir(verify_inputs[j].method)

\* C19: a tool call that raises in one branch leaves in that branch's memory the
\* tool call message followed by the feedback text, never ends the branch's future
\* with the exception and never makes the run of the agent raise; the siblings'
\* memories hold no feedback they did not earn themselves.
C19_ToolErrorIsFedBackToItsBranch ==
    /\ search_run # "raised"
    /\ \A b \in Branches :
          /\ branches[b].pc # "raised"
          /\ ("retry" \in Range(branches[b].function_calls)
                <=> Message("tool", retry_feedback) \in Range(branches[b].memory))

\* C20: each of the three loops that ask the oracle again after a malformed
\* response has a fixed ceiling no larger than MaxMalformed: after that many
\* malformed responses in a row the loop has been left and is not at its head,
\* about to call the oracle once more.
C20_RepromptLoopsAreBounded == rp_malformed >= MaxMalformed => rp_pc # "calling"

-----------------------------------------------------------------------------
(* Claims about the number of children of a turn *)

\* C21: a turn asking for k >= 1 tool calls gets exactly one child when cur_paths
\* has reached max_search_paths, else min(k, max_parallel_tool_calls,
\* max_search_paths - cur_paths + 1) children; each pass of the loop creates one
\* process, and the parent is retired when that many were created.
C21_ChildrenOfATurn ==
    [][/\ \A p \in Pids, k \in 1..MaxTurnCalls :
              ToolCallTurn(p, k) =>
                  threads'[p].width =
                      IF cur_paths >= hyper.max_search_paths
                      THEN 1
                      ELSE Min2(k, Min2(hyper.max_parallel_tool_calls,
                                        hyper.max_search_paths - cur_paths + 1))
       /\ \A p \in Pids, outcome \in ToolOutcomes :
              CreateChild(p, outcome) =>
                  /\ threads[p].created < threads[p].width
                  /\ threads'[p].created = threads[p].created + 1
                  /\ DOMAIN processes' = DOMAIN processes \cup {process_counter}
                  /\ process_counter \notin DOMAIN processes
       /\ \A p \in Pids :
              RetireParent(p) => threads[p].created = threads[p].width]_vars

\* C21 witness: one parent has created the several children of its turn and a
\* branch that took its turn with the budget used up is about to create its one
\* child.
C21_Witness ==
    /\ \E p \in Forking :
          threads[p].width >= 2 /\ threads[p].created = threads[p].width
    /\ \E p \in Forking :
          /\ threads[p].width = 1
          /\ threads[p].created = 0
          /\ cur_paths >= hyper.max_search_paths

-----------------------------------------------------------------------------
(* Claims about the copies made by create_process *)

\* The content of the memory and of the function_calls of process q.
TranscriptOf(heap, refs) ==
    <<heap[refs.memory], heap[refs.function_calls]>>

\* C22: a child starts with the content of its parent's memory and function_calls,
\* and adding a message or a call to one process leaves the memory and the
\* function_calls of every other process, parent or sibling, as they were.
C22_CopiesAreIndependent ==
    [][/\ \A parent_id \in CopyProcessIds :
              create_process(parent_id) =>
                  /\ TranscriptOf(cp_heap', cp_processes'[cp_counter]) =
                         TranscriptOf(cp_heap, cp_processes[parent_id])
                  /\ \A q \in DOMAIN cp_processes :
                         TranscriptOf(cp_heap', cp_processes'[q]) =
                             TranscriptOf(cp_heap, cp_processes[q])
       /\ \A p \in DOMAIN cp_processes :
              (cp_processes' = cp_processes /\ cp_heap' # cp_heap
               /\ TranscriptOf(cp_heap', cp_processes[p]) #
                      TranscriptOf(cp_heap, cp_processes[p])) =>
                  \A q \in DOMAIN cp_processes \ {p} :
                      TranscriptOf(cp_heap', cp_processes[q]) =
                          TranscriptOf(cp_heap, cp_processes[q])]_vars

\* C22 witness: a parent and its two children hold three different memories and
\* three different function_calls lists of full length.
C22_Witness ==
    /\ DOMAIN cp_processes = CopyProcessIds
    /\ \A p, q \in CopyProcessIds :
          p # q => /\ cp_heap[cp_processes[p].memory] # cp_heap[cp_processes[q].memory]
                   /\ cp_heap[cp_processes[p].function_calls] #
                          cp_heap[cp_processes[q].function_calls]

-----------------------------------------------------------------------------
(* Claims about the experience of a round *)

\* C23: the experience in the SearchInput of round 1 is empty; in round n > 1 the
\* last results returned are the VerifyResults of round n - 1, and the experience
\* lists their benign methods and their uncertain methods and nothing else, so no
\* buggy verdict and no verdict of an earlier round.
C23_ExperienceIsThePreviousRound ==
    dpc = "search" =>
        LET experience == prepare_search_input(round_results, current_round).experience
        IN  IF current_round = 1
            THEN experience = ""
            ELSE /\ last_ret.kind = "verify"
                 /\ last_ret.round = current_round - 1
                 /\ experience.benign_methods =
                        Join("\n\n", [i \in 1..Len(SelectSeq(last_ret.value,
                                           LAMBDA r : r.category = "benign")) |->
                                        SelectSeq(last_ret.value,
                                           LAMBDA r : r.category = "benign")[i].method_id])
                 /\ experience.uncertain_methods =
                        Join("\n\n", [i \in 1..Len(SelectSeq(last_ret.value,
                                           LAMBDA r : r.category = "uncertain")) |->
                                        SelectSeq(last_ret.value,
                                           LAMBDA r : r.category = "uncertain")[i].method_id])

\* C23 witness: the search of round 3 is about to run; round 1 ended with a benign
\* verdict for m1, round 2 with a buggy and an uncertain verdict.
C23_Witness ==
    /\ dpc = "search"
    /\ current_round = 3
    /\ Len(round_results) = 2
    /\ \E i \in 1..Len(round_results[1].verify_results) :
          /\ round_results[1].verify_results[i].category = "benign"
          /\ round_results[1].verify_results[i].method_id = "m1"
    /\ \E i, j \in 1..Len(round_results[2].verify_results) :
          /\ round_results[2].verify_results[i].category = "buggy"
          /\ round_results[2].verify_results[i].method_id = "m1"
          /\ round_results[2].verify_results[j].category = "uncertain"

-----------------------------------------------------------------------------
(* Claims about the polling loop of run *)

-----------------------------------------------------------------------------
(* Claims about process_lock *)

\* C25 as stated: every mutation of the process map, of the path counter and of
\* the futures list is made by a thread that holds process_lock at that moment.
C25_MutationsHoldTheLock ==
    \A mutation \in lk_log : mutation.holder = mutation.thread

\* C25, amended: the insertion of a branch into the process map, the removal of a
\* retired parent from it, the change of the path counter and the removal of the
\* parent's future from the futures list are made by the thread that holds
\* process_lock, and no second thread is inside a with-block at that time.
C25_LockedMutations ==
    /\ \A mutation \in lk_log :
          mutation.object # "futures.append" => mutation.holder = mutation.thread
    /\ \A t \in LockThreads :
          lk_pc[t] \in {"in_budget", "in_create", "in_retire", "in_remove"} =>
              lk_holder = t

\* C25 witness: thread 0 holds the lock and is removing its future from the list
\* while thread 1, which has appended its child's future, waits for the lock; the
\* map, the counter and the list have all been changed.
C25_Witness ==
    /\ lk_holder = 0
    /\ lk_pc[0] = "in_remove"
    /\ lk_pc[1] = "retire"
    /\ {mutation.object : mutation \in lk_log} =
           {"cur_paths", "processes", "futures.append", "futures.remove"}

-----------------------------------------------------------------------------
\* C26: after a successful edit_and_run no System.out.println statement that the edit
\* brought in is left in the written file, and when the lines of the edited method
\* hold no print statement PrintStmtNotFoundError is raised and the file is not
\* written.
C26_IntroducedPrintsAreRewritten ==
    /\ epc = "written" => ~IsIn(<<DebugPrintStmt>>, e_file.text)
    /\ (/\ epc = "raised"
        /\ e_result.raised = "none")
       => /\ e_file = Absent
          /\ transform_print_stmt(
                 e_result.content,
                 <<e_interval[1], e_interval[2] + e_result.extra_lines>>).raised
             = "PrintStmtNotFoundError"

\* The half of C26 the code keeps: a file is written only when the transform found a
\* print statement in the method's lines, and then those lines hold none.
C26_RaisedMeansUnwritten ==
    /\ epc = "raised" => e_file = Absent
    /\ epc = "written" => IsIn(<<WriteStmt>>, e_file.text)

-----------------------------------------------------------------------------
(* Claims about get_method_ids_contain_string *)

\* C27: when more non-test methods than max_count contain the text, the result lists
\* exactly max_count methods and its suffix reports the number of methods left out;
\* test methods are never listed.
C27_CapAndSuffix ==
    cs_answer.kind = "listing" =>
        LET matching == {i \in 1..Len(cs_methods) :
                            /\ ~cs_methods[i].is_test
                            /\ IsIn(cs_call.string_content, cs_methods[i].code)}
            total == Cardinality(matching)
        IN  /\ \A i \in 1..Len(cs_answer.listed) :
                   \E j \in matching : cs_methods[j].method_id = cs_answer.listed[i]
            /\ total > cs_call.max_count =>
                   /\ Len(cs_answer.listed) = cs_call.max_count
                   /\ cs_answer.suffix = MoreSuffix(total - cs_call.max_count)

\* What the code keeps of C27: the cut to max_count methods, none of them a test
\* method, and a suffix whenever the list was cut.
C27_CapAlone ==
    cs_answer.kind = "listing" =>
        LET matching == {i \in 1..Len(cs_methods) :
                            /\ ~cs_methods[i].is_test
                            /\ IsIn(cs_call.string_content, cs_methods[i].code)}
            total == Cardinality(matching)
        IN  /\ \A i \in 1..Len(cs_answer.listed) :
                   \E j \in matching : cs_methods[j].method_id = cs_answer.listed[i]
            /\ Len(cs_answer.listed) = Min2(total, cs_call.max_count)
            /\ cs_answer.suffix.present <=> total > cs_call.max_count

-----------------------------------------------------------------------------
(* Claims about get_all_matched_successors *)

\* u and the unmatched nodes reached from u through unmatched nodes.
RECURSIVE ThroughUnmatched(_, _, _)
ThroughUnmatched(inst, node_to_tag, from) ==
    LET further == from \cup {call[2] : call \in {c \in Range(inst) :
                                  c[1] \in from /\ dict_get(node_to_tag, c[2]) = 0}}
    IN  IF further = from THEN from ELSE ThroughUnmatched(inst, node_to_tag, further)

\* The matched nodes reached from u along calls whose intermediate nodes are all
\* unmatched.
ReachedThroughUnmatched(inst, node_to_tag, u) ==
    {call[2] : call \in {c \in Range(inst) :
                   /\ c[1] \in ThroughUnmatched(inst, node_to_tag, {u})
                   /\ dict_get(node_to_tag, c[2]) # 0}}

\* C28: get_all_matched_successors(u) returns exactly the elements of the matched
\* nodes reached from u along paths whose intermediate nodes are all unmatched, on
\* graphs with cycles and self loops too, and create_dynamic_graph adds a calls edge
\* from the element of u to each of them.
C28_MatchedSuccessors ==
    dg_descent # <<>> =>
        LET node_to_tag == match_nodes(DynHeap, dg_inst, DynObjs).node_to_tag
            reached == {dict_get(node_to_tag, w) :
                           w \in ReachedThroughUnmatched(dg_inst, node_to_tag, dg_descent[1].node)}
        IN  /\ Range(dg_descent[1].matched) = reached
            /\ \A successor \in reached :
                   has_edge(dg_built.graph, dg_built.heap,
                            dict_get(node_to_tag, dg_descent[1].node), successor, UniqueKey)

\* What the code keeps of C28: the same for the reached nodes other than u itself.
C28_ExceptTheStartNode ==
    dg_descent # <<>> =>
        LET node_to_tag == match_nodes(DynHeap, dg_inst, DynObjs).node_to_tag
            reached == {dict_get(node_to_tag, w) :
                           w \in ReachedThroughUnmatched(dg_inst, node_to_tag, dg_descent[1].node)
                                 \ {dg_descent[1].node}}
        IN  /\ Range(dg_descent[1].matched) = reached
            /\ \A successor \in reached :
                   has_edge(dg_built.graph, dg_built.heap,
                            dict_get(node_to_tag, dg_descent[1].node), successor, UniqueKey)

-----------------------------------------------------------------------------
(* Claims about the static graph of a file with nested classes *)

\* The lines of element inner lie within the lines of element outer.
LiesInside(inner, outer) ==
    /\ st_tags[outer].rel_fname = st_tags[inner].rel_fname
    /\ st_tags[outer].line[1] <= st_tags[inner].line[1]
    /\ st_tags[inner].line[2] <= st_tags[outer].line[2]

\* The elements of the given categories around an element, and the innermost of them.
Enclosing(element, categories) ==
    {around \in DOMAIN st_tags :
        /\ around # element
        /\ st_tags[around].category \in categories
        /\ LiesInside(element, around)}

Innermost(candidates) ==
    {small \in candidates :
        \A other \in candidates :
            st_tags[small].line[2] - st_tags[small].line[1]
                <= st_tags[other].line[2] - st_tags[other].line[1]}

StaticEdges(rels) ==
    {<<st_built.graph.edges[i].u, st_built.graph.edges[i].v>> :
        i \in {j \in 1..Len(st_built.graph.edges) : st_built.graph.edges[j].rel \in rels}}

\* C29: for every reference inside a function or field definition the static graph
\* has a may_calls edge from that definition to every definition of the reference's
\* name, the enclosing definition itself included.
C29_MayCallsEverySameNamedDefinition ==
    st_built.raised = "none" =>
        \A ref \in {r \in DOMAIN st_tags : st_tags[r].kind = "ref"} :
            \A src \in Innermost(Enclosing(ref, {"function", "field"})) :
                \A tgt \in {d \in DOMAIN st_tags :
                               st_tags[d].kind = "def" /\ st_tags[d].name = st_tags[ref].name} :
                    <<src, tgt>> \in StaticEdges({"may_calls"})

\* C30: the class a function or field element is defined by in the graph is the
\* innermost class-category element around it.
C30_InnermostEnclosingClass ==
    st_built.raised = "none" =>
        \A member \in {m \in DOMAIN st_tags : st_tags[m].category \in {"function", "field"}} :
            {edge[1] : edge \in {e \in StaticEdges({"defines_function", "defines_field"}) :
                                    e[2] = member}}
                = Innermost(Enclosing(member, ClassLike))

-----------------------------------------------------------------------------
(* Claims about the path counter of a search run *)

\* The branches that have taken their terminal turn.
Terminal == {p \in DOMAIN threads : threads[p].pc = "done"}

\* C38: in every state of a search run 1 <= cur_paths <= max_search_paths, the
\* counter never decreases, and at most max_search_paths branches reach a terminal
\* turn.
C38_PathCounter ==
    /\ [](/\ 1 <= cur_paths
          /\ cur_paths <= hyper.max_search_paths
          /\ Cardinality(Terminal) <= hyper.max_search_paths)
    /\ [][cur_paths' >= cur_paths]_vars

\* C38 witness: the run has returned with the counter raised to a budget of three
\* paths and three branches ended by a terminal turn.
C38_Witness ==
    /\ run_state = "saved"
    /\ hyper.max_search_paths = 3
    /\ cur_paths = 3
    /\ Cardinality(Terminal) = 3

-----------------------------------------------------------------------------
(* Claims about retired parents and the leaves of a search run *)

\* The branches whose process_function_calls call has returned.
Retired == {p \in DOMAIN threads : threads[p].pc = "retired"}

-----------------------------------------------------------------------------
(* Claims about the verify rounds of a lineage *)

\* The verifications completed along the lineage of process p: the calls of
\* nominate_suspicious_method in the trace it inherited and extended.
VerificationsOf(p) ==
    Cardinality({i \in 1..Len(processes[p].function_calls) :
                    processes[p].function_calls[i] = "nominate_suspicious_method"})

\* C32: along any lineage of forked branches the number of completed verifications
\* never exceeds max_verify_rounds.
C32_VerifyRoundsOfALineage ==
    \A p \in DOMAIN processes : VerificationsOf(p) <= hyper.max_verify_rounds

\* The counter run_process tests, which create_process does not hand down: a
\* process has completed at most one verification of its own.
C32_VerifyRoundsOfAProcess ==
    \A p \in DOMAIN processes :
        /\ processes[p].verify_rounds <= 1
        /\ processes[p].verify_rounds <= VerificationsOf(p)


\* The branches of the run that are in the oracle loop with a response without tool
\* call behind them.
Reprompted == {p \in DOMAIN threads : threads[p].pc = "turn" /\ threads[p].tmp_messages # <<>>}

RunEnded == run_state \in {"saved", "raised"}

\* C31: every lineage records at most max_tool_calls tool invocations (failed ones
\* as "retry"), so the process tree is no deeper than max_tool_calls, and the search
\* run ends for every oracle that answers each call, also with one worker.
C31_BranchesAndRunTerminate ==
    /\ [](\A p \in DOMAIN processes :
            /\ num_function_calls(processes[p]) <= hyper.max_tool_calls
            /\ Count(processes[p].id, <<"-">>) < hyper.max_tool_calls)
    /\ <>RunEnded

\* The tool-call budget bounds every lineage and the depth of the tree.
C31_DepthWithinToolCalls ==
    \A p \in DOMAIN processes :
        /\ num_function_calls(processes[p]) <= hyper.max_tool_calls
        /\ Count(processes[p].id, <<"-">>) < hyper.max_tool_calls

\* The run ends unless a branch stays in the loop that asks again for a tool call.
C31_EndsUnlessAskedAgainForever == <>RunEnded \/ <>[](Reprompted # {})

\* Every tool message of a transcript directly follows an assistant message with
\* exactly one tool call, of the same call id.
WellPaired(memory) ==
    \A i \in 1..Len(memory) :
        memory[i].role = "tool" =>
            /\ i > 1
            /\ memory[i - 1].role = "assistant"
            /\ Len(memory[i - 1].tool_calls) = 1
            /\ memory[i - 1].tool_calls[1].id = memory[i].tool_call_id

IsPrefix(s, t) == Len(s) <= Len(t) /\ SubSeq(t, 1, Len(s)) = s

\* C37: in every branch transcript at every time each tool-result message directly
\* follows an assistant message with exactly one tool call of the same call id, and
\* messages are only appended: a transcript extends what it was, and the transcript
\* of a new branch extends the one of the branch it was forked from.
C37_TranscriptsPairedAndAppendOnly ==
    /\ [](\A p \in DOMAIN tr_processes : WellPaired(tr_processes[p].memory))
    /\ [][\A p \in DOMAIN tr_processes' :
            IF p \in DOMAIN tr_processes
            THEN IsPrefix(tr_processes[p].memory, tr_processes'[p].memory)
            ELSE \/ DOMAIN tr_processes = {}
                 \/ \E parent \in DOMAIN tr_processes \ DOMAIN tr_processes' :
                       IsPrefix(tr_processes[parent].memory, tr_processes'[p].memory)]_vars

C37_Witness ==
    /\ search_json = <<>>
    /\ \E p, q \in DOMAIN tr_processes :
          /\ p # q
          /\ tr_processes[p].pc = "done"
          /\ tr_processes[q].pc = "done"
          /\ Len(tr_processes[p].function_calls) = TranscriptToolCalls
          /\ Len(tr_processes[p].memory) = 10
          /\ tr_processes[p].memory[8].tool_call_id = "call_a"
          /\ tr_processes[q].memory[8].tool_call_id = "call_b"
          /\ tr_processes[q].function_calls[2] = "retry"

\* The Java file edit_and_run writes for a command applied to the original file.
WrittenFor(command) ==
    LET edited == apply_edit_commands_search_replace(
                      Render(command), TextOf(VerifyLines), VerifyInterval)
    IN  transform_print_stmt(
            edited.content,
            <<VerifyInterval[1], VerifyInterval[2] + edited.extra_lines>>).content

\* C33: within one verification every edit is applied to the original content of
\* the method's file: the Java file written for an edit is the original file with
\* that edit alone, whatever edits were written before.
C33_EveryEditOnTheOriginal ==
    [][(vpc = "edit" /\ ws'.java # ws.java) => ws'.java = Present(WrittenFor(v_cmd))]_vars

C33_Witness ==
    /\ edit_count = 2
    /\ vpc = "oracle"
    /\ ws.java = Present(WrittenFor(v_cmd))
    /\ ws.java.text # TextOf(VerifyLines)

\* C34: a verification that finds the playground directory of an earlier, crashed
\* verification starts without error and from the original source file.
C34_RestartOnALeftPlayground ==
    [][(ws.exists /\ v_runs' = v_runs + 1)
          => (vpc' = "oracle" /\ ws'.bak = Present(TextOf(VerifyLines)))]_vars

\* A verification that gets into its edit loop has the original source file as
\* the content its edits are applied to.
C34_OriginalContentOnceEntered ==
    [][(v_runs' = v_runs + 1 /\ vpc' = "oracle")
          => read_content(ws') = TextOf(VerifyLines)]_vars

\* The test cases taken round-robin across the test classes, the last of a class
\* first, up to n of them.
RECURSIVE RoundRobin(_, _, _)
RoundRobin(test_cases, at, n) ==
    IF n = 0 \/ \A c \in 1..Len(test_cases) : test_cases[c] = <<>>
    THEN <<>>
    ELSE LET cs == test_cases[at]
             next == IF at = Len(test_cases) THEN 1 ELSE at + 1
         IN  IF cs = <<>>
             THEN RoundRobin(test_cases, next, n)
             ELSE <<cs[Len(cs)]>> \o
                  RoundRobin([test_cases EXCEPT ![at] = SubSeq(cs, 1, Len(cs) - 1)],
                             next, n - 1)

\* C35: with more failing test cases than max_test_cases the selection ends with
\* exactly max_test_cases test cases, taken round-robin across the test classes;
\* with no more than max_test_cases all test cases are kept.
C35_SelectionEndsWithTheLimit ==
    /\ sel_pc # "raised"
    /\ num_test_cases(sel_classes) > max_test_cases =>
          Len(new_test_cases) <= max_test_cases
    /\ sel_pc = "selected" =>
          new_test_cases = IF num_test_cases(sel_classes) > max_test_cases
                           THEN RoundRobin(sel_classes, 1, max_test_cases)
                           ELSE flatten(sel_classes)

\* Within the limit all test cases are kept; above it the selection never ends
\* with a list of test cases.
C35_AllKeptWithinTheLimit ==
    sel_pc = "selected" =>
        /\ num_test_cases(sel_classes) <= max_test_cases
        /\ new_test_cases = flatten(sel_classes)

\* Up to the limit the test cases are taken round-robin across the test classes.
C35_RoundRobinUpToTheLimit ==
    (sel_pc = "select" /\ Len(new_test_cases) <= max_test_cases) =>
        new_test_cases = RoundRobin(sel_classes, 1, Len(new_test_cases))

\* The methods of the final round of a debugged test case that were verified as
\* buggy.
ConfirmedMethods(debugged) ==
    LET final == debugged.round_results[Len(debugged.round_results)].verify_results
    IN  {final[k].method_id : k \in {j \in 1..Len(final) : final[j].category = "buggy"}}

\* The test cases whose debugging completed with a method confirmed in the final
\* round, which is when update_round is to set found_bug.
FoundBug ==
    {i \in 1..Len(fr_results) :
        /\ fr_results[i].completed
        /\ fr_results[i].raised = "none"
        /\ ConfirmedMethods(fr_results[i]) # {}}

C36_FoundBugIsNeverSet ==
    /\ \A i \in 1..Len(fr_states) : ~fr_states[i].found_bug
    /\ \A i \in 1..Len(fr_results) : ~fr_results[i].found_bug

\* get_result_report returns no report.
C36_NoReportIsBuilt == fr_pc # "reported" /\ fr_report = <<>>

\* The method ID of the last tool call of a memory, and the result message of it.
LastNominated(memory) == memory[Len(memory) - 1].tool_calls[1].arguments.method_id

LastResult(memory) == memory[Len(memory)]

\* C40: a nominate_suspicious_method call whose method ID is not in the graph
\* does not call VerifyAgent.run and leaves the verify rounds of the branch as they
\* were; the branch gets the answer of get_method_code_for_id (the similar IDs when
\* there are possible ones, else the not-found message) as the result of the call,
\* added to its own memory after the message of the call.
C40_UnknownMethodIsNotVerified ==
    [][(/\ nm_process'.function_calls # nm_process.function_calls
        /\ ~dict_has(nm_searcher.method_id_map, LastNominated(nm_process'.memory)))
       => /\ nm_verified' = nm_verified
          /\ nm_process'.verify_rounds = 0
          /\ SubSeq(nm_process'.memory, 1, Len(nm_process.memory)) = nm_process.memory
          /\ Len(nm_process'.memory) = Len(nm_process.memory) + 2
          /\ LastResult(nm_process'.memory).role = "tool"
          /\ LastResult(nm_process'.memory).tool_call_id
                 = nm_process'.memory[Len(nm_process'.memory) - 1].tool_calls[1].id
          /\ LastResult(nm_process'.memory).content.kind =
                 IF get_possible_method_ids(nm_searcher, LastNominated(nm_process'.memory),
                                            nm_seed) # <<>>
                 THEN "suggestions"
                 ELSE "MethodIDNotFoundError.message"]_vars

C40_Witness ==
    /\ nm_verified = 1
    /\ Len(nm_process.function_calls) = 3
    /\ nm_process.function_calls[2] = "nominate_suspicious_method"
    /\ nm_process.function_calls[3] = "nominate_suspicious_method"
    /\ nm_process.verify_rounds = 0
    /\ ~dict_has(nm_searcher.method_id_map, LastNominated(nm_process.memory))
    /\ LastResult(nm_process.memory).content.kind = "suggestions"
    /\ LastResult(nm_process.memory).content.ids # <<>>

====
